---- MODULE Spec2Model ----
(***************************************************************************)
(* Query understanding and routing pipeline of the notebook-router         *)
(* Telegram bot: the fuzzy store-name matcher and the store router         *)
(* (router.py), the query classifier (query_processor.py), the intent      *)
(* heuristics (intent_utils.py), the per-user selection (user_state.py)    *)
(* and the message pipeline with its command handlers (bot.py).            *)
(*                                                                         *)
(* Text is modelled as a sequence of symbols.  A symbol is a letter        *)
(* ("a", "b", "A", "B"), the blank " ", or a whole keyword of the          *)
(* heuristics' vocabulary written as one opaque symbol ("#list").          *)
(* Scores are the exact fractions the code computes, kept as <<num, den>>. *)
(***************************************************************************)
EXTENDS Integers, Sequences, FiniteSets, TLC

VARIABLES
    notebooks,    \* router.notebooks: the router's copy of the catalog
    routed,       \* outcome of the last router call
    question,     \* classifier: the question handed to process_query
    response,     \* classifier: the LLM's response to the analysis prompt
    processed,    \* classifier: the ProcessedQuery returned (or NoQuery)
    picked,       \* result of _pick_action on (processed, question)
    stores,       \* gemini_client.stores: the store catalog
    user_state,   \* UserStateClient.state: user -> selection or None
    user_data,    \* context.user_data of every user
    run,          \* what the last handler run did (handler, calls, replies)
    futures,      \* ask_multistore_parallel: the submitted workers
    results,      \* ask_multistore_parallel: results in completion order
    returned,     \* ask_multistore_parallel: the list returned, formatted
    max_messages, \* UserMemoryClient.max_messages
    memory,       \* UserMemoryClient.memory: (user, scope) -> messages
    appended,     \* every message add_message was given, per (user, scope)
    calls,        \* the calls made on the UserStateClient, in order
    now,          \* the clock datetime.now() reads
    contexts,     \* UserMemoryClient.memory with its timestamps
    swept         \* what the cleanup job logged, when it was the last to run

vars == <<notebooks, routed, question, response, processed, picked,
          stores, user_state, user_data, run,
          futures, results, returned, max_messages, memory, appended,
          calls, now, contexts, swept>>


----------------------------------------------------------------------------
(* Bounds of the model: the longest name looked up, the most names in one *)
(* router LLM answer, the largest max_notebooks, the largest catalog.     *)

MaxNameLen  == 3
MaxSelected == 2
MaxResults  == 2
MaxStores   == 3

----------------------------------------------------------------------------
(* Strings *)

Char == {"a", "b", "A", "B", " "}

StringsUpTo(n) == UNION {[1..k -> Char] : k \in 0..n}

\* str.lower() on one character
LowerChar(c) == IF c = "A" THEN "a" ELSE IF c = "B" THEN "b" ELSE c

\* str.lower()
Lower(s) == [i \in 1..Len(s) |-> LowerChar(s[i])]

\* str.strip(): drop leading and trailing whitespace
RECURSIVE LStrip(_)
LStrip(s) == IF s # <<>> /\ Head(s) = " " THEN LStrip(Tail(s)) ELSE s

RECURSIVE RStrip(_)
RStrip(s) ==
    IF s # <<>> /\ s[Len(s)] = " " THEN RStrip(SubSeq(s, 1, Len(s) - 1)) ELSE s

Strip(s) == RStrip(LStrip(s))

\* Python's `a in b` on strings
IsSubstr(a, b) ==
    \E i \in 0..(Len(b) - Len(a)) : SubSeq(b, i + 1, i + Len(a)) = a

\* set(s.split()): the maximal blank-free runs of s
Words(s) ==
    { SubSeq(s, i, j) : <<i, j>> \in
        { p \in (1..Len(s)) \X (1..Len(s)) :
            /\ p[1] <= p[2]
            /\ \A k \in p[1]..p[2] : s[k] # " "
            /\ (p[1] = 1 \/ s[p[1] - 1] = " ")
            /\ (p[2] = Len(s) \/ s[p[2] + 1] = " ") } }

Max(a, b) == IF a >= b THEN a ELSE b
Min(a, b) == IF a <= b THEN a ELSE b

\* seq[:n]
Take(seq, n) == SubSeq(seq, 1, Min(n, Len(seq)))

\* x in seq
InSeq(x, seq) == \E i \in 1..Len(seq) : seq[i] = x

\* fractions num/den with den > 0
FracGT(x, y) == x[1] * y[2] > y[1] * x[2]
Zero == <<0, 1>>

----------------------------------------------------------------------------
(* router.py: fuzzy name matching inside route / route_with_reasoning *)

\* the partial-match score of one notebook, or Zero when neither name
\* contains the other
PartialScore(name_lower, nb_name) ==
    IF IsSubstr(name_lower, nb_name) \/ IsSubstr(nb_name, name_lower)
    THEN <<Len(name_lower), Max(Len(nb_name), 1)>>
    ELSE Zero

\* the share of common words among the words of the longer name
OverlapOf(name_words, nb_words) ==
    IF name_words \cap nb_words # {}
    THEN <<Cardinality(name_words \cap nb_words),
           Max(Cardinality(name_words), Cardinality(nb_words))>>
    ELSE Zero

\* the word-overlap score of one notebook, or Zero without common words
OverlapScore(name_lower, nb_name) ==
    OverlapOf(Words(name_lower), Words(nb_name))

\* the update with `>=` in place of `>`: a later candidate of equal score
\* replaces the earlier one
Improve_last(b, i, score) == IF FracGT(b[2], score) THEN b ELSE <<i, score>>

\* `if score > best_score: best_score = score; best_match = nb` on
\* b = <<best_match, best_score>>, best_match an index (0 for None)
Improve(b, i, score) == IF FracGT(score, b[2]) THEN <<i, score>> ELSE b

\* the inner loop `for nb in self.notebooks`: i is the next index, b the
\* pair <<best_match, best_score>> so far
RECURSIVE MatchLoop(_, _, _, _)
MatchLoop(name_lower, nbs, i, b) ==
    IF i > Len(nbs) THEN b[1]
    ELSE IF Lower(nbs[i].name) = name_lower THEN i    \* exact match: break
    ELSE MatchLoop(
             name_lower, nbs, i + 1,
             Improve(Improve(b, i,
                             PartialScore(name_lower, Lower(nbs[i].name))),
                     i, OverlapScore(name_lower, Lower(nbs[i].name))))

\* index in nbs of the best match for the name the LLM returned, 0 for None
BestMatch(name, nbs) == MatchLoop(Strip(Lower(name)), nbs, 1, <<0, Zero>>)

\* AddMatch without the `best_match not in selected` test
AddMatchNoDedup(selected, nbs, m) ==
    IF m # 0 THEN Append(selected, nbs[m]) ELSE selected

\* `if best_match and best_match not in selected: selected.append(...)`
AddMatch(selected, nbs, m) ==
    IF m # 0 /\ ~InSeq(nbs[m], selected) THEN Append(selected, nbs[m])
    ELSE selected

\* the outer loop `for name in selected_names`
RECURSIVE MapNames(_, _, _)
MapNames(names, nbs, selected) ==
    IF names = <<>> THEN selected
    ELSE MapNames(Tail(names), nbs,
                  AddMatch(selected, nbs, BestMatch(Head(names), nbs)))

\* `if not selected: selected = self.notebooks[:max_notebooks]` and
\* `return selected[:max_notebooks]`
SelectedOrFirst(selected, nbs, max_notebooks) ==
    IF selected # <<>> THEN Take(selected, max_notebooks)
    ELSE Take(nbs, max_notebooks)

\* route(question, max_notebooks), router.py 75-192.  reply is the LLM's
\* answer: "error" (the call, json.loads or name.lower() raised),
\* "noarray" (no [...] in the text) or "names" with the parsed list.
route(nbs, reply, max_notebooks) ==
    IF nbs = <<>> THEN <<>>
    ELSE IF Len(nbs) = 1 THEN Take(nbs, 1)
    ELSE IF reply.kind = "error" THEN Take(nbs, max_notebooks)
    ELSE IF reply.kind = "noarray" THEN Take(nbs, max_notebooks)
    ELSE SelectedOrFirst(MapNames(reply.names, nbs, <<>>), nbs, max_notebooks)

\* route_with_reasoning(question, max_notebooks), router.py 194-291.
\* reply is the LLM's answer: "error", "nojson" (no {...} in the text, the
\* call is handed to route, which asks the LLM again and gets reply2) or
\* "names" with data.get("selected", []).
route_with_reasoning(nbs, reply, reply2, max_notebooks) ==
    IF nbs = <<>> THEN <<>>
    ELSE IF reply.kind = "error" THEN Take(nbs, max_notebooks)
    ELSE IF reply.kind = "nojson" THEN route(nbs, reply2, max_notebooks)
    ELSE Take(MapNames(reply.names, nbs, <<>>), max_notebooks)

----------------------------------------------------------------------------
(* intent_utils.py: the heuristics.  A question is a sequence of words.  *)
(* A word is a letter, the punctuation word "?", or one keyword of a     *)
(* rule's alternation written as a single symbol:                        *)
(*   #list #store #status #clear #memory #export #pdf #docx #select      *)
(*   #rename #in #delete #for #folder                                    *)
(* #store is a word both the list rule and the optional group of the     *)
(* select/rename/delete rules accept; #in is one of the connectives      *)
(* the rename rule and the first hint pattern accept; #for is the        *)
(* preposition of the other hint patterns; #folder is a Drive folder URL.*)

NULL == "<null>"

\* a dict of action arguments: `keys` are the keys present
Dict(keys, format, qtext, store_name, old_name, new_name) ==
    [kind |-> "dict", keys |-> keys, format |-> format, question |-> qtext,
     store_name |-> store_name, old_name |-> old_name, new_name |-> new_name]

EmptyDict == Dict({}, NULL, <<>>, <<>>, <<>>, <<>>)

\* words of a name joined by single blanks
RECURSIVE JoinWords(_)
JoinWords(ws) ==
    IF ws = <<>> THEN <<>>
    ELSE IF Len(ws) = 1 THEN <<ws[1]>>
    ELSE <<ws[1], " ">> \o JoinWords(Tail(ws))

\* _clean_store_name on a run of words: trailing punctuation is removed
RECURSIVE _clean_store_name(_)
_clean_store_name(ws) ==
    IF ws # <<>> /\ ws[Len(ws)] = "?"
    THEN _clean_store_name(SubSeq(ws, 1, Len(ws) - 1))
    ELSE ws

Has(text, w) == \E i \in 1..Len(text) : text[i] = w

\* re.search(r"\b(w1)\b.*\b(w2)\b"): w1 somewhere before w2
HasBefore(text, w1, w2) ==
    \E i, j \in 1..Len(text) : i < j /\ text[i] = w1 /\ text[j] = w2

\* the words after position i
After(text, i) == SubSeq(text, i + 1, Len(text))

\* the words after an optional #store, which is taken when something is
\* left for (.+) after it
SkipStore(rest) ==
    IF Len(rest) >= 2 /\ rest[1] = "#store" THEN Tail(rest) ELSE rest

\* the least member of a set of positions, 0 for the empty set
First(hits) ==
    IF hits = {} THEN 0 ELSE CHOOSE i \in hits : \A j \in hits : i <= j

\* first position of kw at which the one-name pattern matches, 0 for none
FirstNameMatch(text, kw) ==
    First({i \in 1..Len(text) : text[i] = kw /\ After(text, i) # <<>>})

\* r"(.+?)\s+(?:in)\s+(.+)" on a run of words: the split position k of the
\* lazy first group (old = 1..k, connective at k+1, new = k+2..), 0 for none
SplitAt(rest) ==
    First({k \in 1..Len(rest) : Len(rest) >= k + 2 /\ rest[k + 1] = "#in"})

\* the run of words (.+?) ... (.+) is matched on, first with the optional
\* group taken
SkipStoreBeforeSplit(rest) ==
    IF rest # <<>> /\ rest[1] = "#store" /\ SplitAt(Tail(rest)) # 0
    THEN Tail(rest) ELSE rest

\* the rename pattern tried at the keyword at position i
RenameRestAt(text, i) == SkipStoreBeforeSplit(After(text, i))

FirstRenameMatch(text) ==
    First({i \in 1..Len(text) :
              text[i] = "#rename" /\ SplitAt(RenameRestAt(text, i)) # 0})

NoAction == [action |-> NULL, args |-> EmptyDict]

\* `if store_name: return action, {"store_name": store_name}`
NamedAction(action, store_name) ==
    IF store_name # <<>>
    THEN [action |-> action,
          args |-> Dict({"store_name"}, NULL, <<>>, JoinWords(store_name),
                        <<>>, <<>>)]
    ELSE NoAction

\* r"\b(kw)\b\s*(?:store)?\s*(.+)" matched at the keyword at position i
\* (0: no match): group 2 is the name
NameRuleAt(text, i, action) ==
    IF i = 0 THEN NoAction
    ELSE NamedAction(action, _clean_store_name(SkipStore(After(text, i))))

\* the select / delete rule: the action with its name, or NoAction when the
\* rule does not match or the cleaned name is empty
NameRule(text, kw, action) ==
    NameRuleAt(text, FirstNameMatch(text, kw), action)

\* `if old_name and new_name: return "rename_store", {...}`
RenamedAction(old_name, new_name) ==
    IF old_name # <<>> /\ new_name # <<>>
    THEN [action |-> "rename_store",
          args |-> Dict({"old_name", "new_name"}, NULL, <<>>, <<>>,
                        JoinWords(old_name), JoinWords(new_name))]
    ELSE NoAction

\* the groups of the rename pattern on rest, split at k
RenameSplit(rest, k) ==
    RenamedAction(_clean_store_name(SubSeq(rest, 1, k)),
                  _clean_store_name(SubSeq(rest, k + 2, Len(rest))))

\* the rename rule matched at position i (0: no match)
RenameRuleAt(text, i) ==
    IF i = 0 THEN NoAction
    ELSE RenameSplit(RenameRestAt(text, i), SplitAt(RenameRestAt(text, i)))

RenameRule(text) == RenameRuleAt(text, FirstRenameMatch(text))

\* the first rule that gives an action
OrElse(found, otherwise) == IF found # NoAction THEN found ELSE otherwise

\* the heuristics with the delete rule tried before the select rule
infer_action_delete_first(text) ==
    IF text = <<>> THEN NoAction
    ELSE IF HasBefore(text, "#list", "#store")
        THEN [action |-> "list_stores", args |-> EmptyDict]
    ELSE IF Has(text, "#status")
        THEN [action |-> "status", args |-> EmptyDict]
    ELSE IF HasBefore(text, "#clear", "#memory")
        THEN [action |-> "clear_memory", args |-> EmptyDict]
    ELSE IF Has(text, "#export")
        THEN [action |-> "export",
              args |-> IF Has(text, "#pdf")
                       THEN Dict({"format"}, "pdf", <<>>, <<>>, <<>>, <<>>)
                       ELSE IF Has(text, "#docx")
                       THEN Dict({"format"}, "docx", <<>>, <<>>, <<>>, <<>>)
                       ELSE EmptyDict]
    ELSE OrElse(NameRule(text, "#delete", "delete_store"),
                OrElse(RenameRule(text),
                       NameRule(text, "#select", "select_store")))

\* infer_action_from_text(text), intent_utils.py 18-79
infer_action_from_text(text) ==
    IF text = <<>> THEN NoAction
    ELSE IF HasBefore(text, "#list", "#store")
        THEN [action |-> "list_stores", args |-> EmptyDict]
    ELSE IF Has(text, "#status")
        THEN [action |-> "status", args |-> EmptyDict]
    ELSE IF HasBefore(text, "#clear", "#memory")
        THEN [action |-> "clear_memory", args |-> EmptyDict]
    ELSE IF Has(text, "#export")
        THEN [action |-> "export",
              args |-> IF Has(text, "#pdf")
                       THEN Dict({"format"}, "pdf", <<>>, <<>>, <<>>, <<>>)
                       ELSE IF Has(text, "#docx")
                       THEN Dict({"format"}, "docx", <<>>, <<>>, <<>>, <<>>)
                       ELSE EmptyDict]
    ELSE OrElse(NameRule(text, "#select", "select_store"),
                OrElse(RenameRule(text),
                       NameRule(text, "#delete", "delete_store")))

\* the question continuations the hint is trimmed at; #list stands for the
\* interrogative that is also a keyword of the list rule
RECURSIVE TrimContinuation(_)
TrimContinuation(ws) ==
    IF ws = <<>> THEN <<>>
    ELSE IF Head(ws) = "#list" THEN <<>>
    ELSE <<Head(ws)>> \o TrimContinuation(Tail(ws))

\* [^\n,.!?]+ : the words up to the first punctuation
RECURSIVE UpToPunct(_)
UpToPunct(ws) ==
    IF ws = <<>> \/ Head(ws) = "?" THEN <<>>
    ELSE <<Head(ws)>> \o UpToPunct(Tail(ws))

\* positions at which a hint pattern with preposition prep matches
HintHits(text, prep) ==
    {i \in 1..Len(text) :
        /\ text[i] = prep
        /\ i + 2 <= Len(text)
        /\ text[i + 1] = "#store"
        /\ text[i + 2] # "?"}

FirstHint(text, prep) == First(HintHits(text, prep))

\* the hint taken from the match at position i (0: no pattern matches)
HintAt(text, i) ==
    IF i = 0 THEN <<>>
    ELSE JoinWords(_clean_store_name(TrimContinuation(
             _clean_store_name(UpToPunct(After(text, i + 1))))))

\* extract_target_store_hint(text), intent_utils.py 82-107: the hinted
\* name, <<>> for None (and for a name cleaned down to nothing)
extract_target_store_hint(text) ==
    HintAt(text, IF FirstHint(text, "#in") # 0 THEN FirstHint(text, "#in")
                 ELSE FirstHint(text, "#for"))

----------------------------------------------------------------------------
(* query_processor.py: the classifier.  Confidence is kept in tenths.    *)
(* An LLM response is                                                     *)
(*   [kind |-> "exception"]  the call raised, or response.text is None    *)
(*   [kind |-> "nojson"]     no {...} in the text: ValueError             *)
(*   [kind |-> "badjson"]    {...} that json.loads rejects                *)
(*   [kind |-> "json", has |-> keys present, <one field per key>]         *)
(* A confidence value is a number, or null / a non-numeric string, on     *)
(* which float() raises.  None and "" are both written <<>> for           *)
(* target_store, whose truth value is all the code reads.                 *)

ConfNumber(tenths) == [kind |-> "number", tenths |-> tenths]
ConfNull == [kind |-> "null"]
ConfText == [kind |-> "text"]

\* data.get(key, default)
Get(data, key, default) == IF key \in data.has THEN data[key] ELSE default

\* the fallback ProcessedQuery of process_query's except branch
Fallback(q) ==
    [op |-> "processed", query_type |-> "single", optimized_prompt |-> q,
     include_sources |-> FALSE, target_store |-> <<>>, target_stores |-> <<>>,
     original_question |-> q, confidence |-> 0, complexity |-> "medium",
     action |-> NULL, action_args |-> EmptyDict]

\* _parse_response raises: no JSON object, invalid JSON, or float() fails
ParseRaises(resp) ==
    \/ resp.kind \in {"nojson", "badjson"}
    \/ /\ resp.kind = "json"
       /\ "confidence" \in resp.has
       /\ resp.confidence.kind # "number"

\* data.get("action_args") or {}
ArgsOrEmpty(data) ==
    IF "action_args" \in data.has /\ data.action_args.kind # "null"
       /\ ~(data.action_args.kind = "dict" /\ data.action_args.keys = {})
    THEN data.action_args ELSE EmptyDict

\* _parse_response with the fallback's confidence as the default
_parse_response_conf0(data, q) ==
    [op |-> "processed",
     query_type |-> Get(data, "query_type", "single"),
     optimized_prompt |-> Get(data, "optimized_prompt", q),
     include_sources |-> Get(data, "include_sources", FALSE),
     target_store |-> Get(data, "target_store", <<>>),
     target_stores |-> Get(data, "compare_stores", <<>>),
     original_question |-> q,
     confidence |-> IF "confidence" \in data.has THEN data.confidence.tenths
                    ELSE 0,
     complexity |-> Get(data, "complexity", "medium"),
     action |-> Get(data, "action", NULL),
     action_args |-> ArgsOrEmpty(data)]

\* _parse_response(response_text, original_question) on a JSON object
_parse_response(data, q) ==
    [op |-> "processed",
     query_type |-> Get(data, "query_type", "single"),
     optimized_prompt |-> Get(data, "optimized_prompt", q),
     include_sources |-> Get(data, "include_sources", FALSE),
     target_store |-> Get(data, "target_store", <<>>),
     target_stores |-> Get(data, "compare_stores", <<>>),
     original_question |-> q,
     confidence |-> IF "confidence" \in data.has THEN data.confidence.tenths
                    ELSE 5,
     complexity |-> Get(data, "complexity", "medium"),
     action |-> Get(data, "action", NULL),
     action_args |-> ArgsOrEmpty(data)]

\* process_query whose except branch misses the errors of _parse_response
process_query_uncaught(q, resp) ==
    IF resp.kind = "exception" THEN Fallback(q)
    ELSE IF ParseRaises(resp) THEN [Fallback(q) EXCEPT !.op = "raised"]
    ELSE _parse_response(resp, q)

\* process_query(question, ...), query_processor.py 64-178
process_query(q, resp) ==
    IF resp.kind = "exception" \/ ParseRaises(resp)
    THEN Fallback(q)
    ELSE _parse_response(resp, q)

----------------------------------------------------------------------------
(* bot.py: action resolution *)

ACTION_CONFIDENCE_THRESHOLD == 6

\* `if not isinstance(action_args, dict): action_args = {}`
WithDictArgs(first) ==
    [action |-> first.action,
     args |-> IF first.args.kind = "dict" THEN first.args ELSE EmptyDict]

\* the classifier names an action and is confident enough
ConfidentAction(p) ==
    /\ p.action # NULL /\ p.action # "" /\ p.action # "none"
    /\ p.confidence >= ACTION_CONFIDENCE_THRESHOLD

\* _pick_action that asks the heuristics first
_pick_action_heuristic_first(p, q) ==
    WithDictArgs(
        IF infer_action_from_text(q).action # NULL
        THEN infer_action_from_text(q)
        ELSE IF ConfidentAction(p)
        THEN [action |-> p.action, args |-> p.action_args]
        ELSE infer_action_from_text(q))

\* _pick_action(processed, question), bot.py 1543-1558
_pick_action(p, q) ==
    WithDictArgs(
        IF ConfidentAction(p)
        THEN [action |-> p.action, args |-> p.action_args]
        ELSE infer_action_from_text(q))

----------------------------------------------------------------------------
(* Inputs of the router *)

\* names a catalog may hold; " a" is a display name that was never stripped
CatalogNames == {<<"a">>, <<" ", "a">>, <<"a", "b">>, <<"a", " ", "b">>, <<"B">>}

IdOf(i) == CASE i = 1 -> "s1" [] i = 2 -> "s2" [] i = 3 -> "s3"
             [] i = 4 -> "s4" [] OTHER -> "s5"

\* catalogs of up to MaxStores stores with distinct names, ids by creation
Catalogs ==
    { [i \in 1..k |-> [id |-> IdOf(i), name |-> f[i]]] :
        <<k, f>> \in { p \in UNION { {n} \X [1..n -> CatalogNames] : n \in 0..MaxStores } :
                        \A i, j \in 1..p[1] : i # j => p[2][i] # p[2][j] } }

\* names the router LLM answers with
ReplyNames == {<<"a">>, <<"A", " ", "b">>, <<"B", "B">>, <<>>}

NameLists == UNION {[1..k -> ReplyNames] : k \in 0..MaxSelected}

RouteReplies ==
    {[kind |-> "error"], [kind |-> "noarray"]}
        \cup {[kind |-> "names", names |-> l] : l \in NameLists}

ReasoningReplies ==
    {[kind |-> "error"], [kind |-> "nojson"]}
        \cup {[kind |-> "names", names |-> l] : l \in NameLists}

----------------------------------------------------------------------------
(* Inputs of the classifier *)

ABSENT == "<absent>"
Absent == [kind |-> "absent"]

\* a JSON object of the LLM; ABSENT / Absent / FALSE mark a missing key
Json(qt, has_prompt, prompt, conf, cx, act, args, src, target, pair) ==
    [kind |-> "json",
     has |-> (IF qt # ABSENT THEN {"query_type"} ELSE {})
             \cup (IF has_prompt THEN {"optimized_prompt"} ELSE {})
             \cup (IF conf # Absent THEN {"confidence"} ELSE {})
             \cup (IF cx # ABSENT THEN {"complexity"} ELSE {})
             \cup (IF act # ABSENT THEN {"action"} ELSE {})
             \cup (IF args # Absent THEN {"action_args"} ELSE {})
             \cup (IF src THEN {"include_sources"} ELSE {})
             \cup (IF target # <<>> THEN {"target_store"} ELSE {})
             \cup (IF pair # <<>> THEN {"compare_stores"} ELSE {}),
     query_type |-> qt, optimized_prompt |-> prompt, confidence |-> conf,
     complexity |-> cx, action |-> act, action_args |-> args,
     include_sources |-> src, target_store |-> target, compare_stores |-> pair]

JsonKeys == {"query_type", "optimized_prompt", "confidence", "complexity",
             "action", "action_args", "include_sources", "target_store",
             "compare_stores"}

Rewritten == <<"b", "?">>
AskedInExport == <<"a", "?">>

ConfOpts == {Absent, ConfNull, ConfText,
             ConfNumber(0), ConfNumber(5), ConfNumber(6), ConfNumber(9)}

ActionOpts == {ABSENT, NULL, "none", "list_stores", "export", "delete_store",
               "summary"}

ArgsOpts == {Absent, [kind |-> "null"], [kind |-> "text"], EmptyDict,
             Dict({"format"}, "pdf", <<>>, <<>>, <<>>, <<>>),
             Dict({"question"}, NULL, AskedInExport, <<>>, <<>>, <<>>),
             Dict({"store_name"}, NULL, <<>>, <<"a">>, <<>>, <<>>)}

Failures == {[kind |-> "exception"], [kind |-> "nojson"], [kind |-> "badjson"]}

Responses ==
    Failures \cup
    { Json(qt, hp, Rewritten, conf, cx, act, args, FALSE, <<>>, <<>>) :
        qt \in {ABSENT, "single", "multistore"}, hp \in BOOLEAN,
        conf \in ConfOpts, cx \in {ABSENT, "complex"},
        act \in ActionOpts, args \in ArgsOpts }

Questions ==
    { <<"a", "?">>,
      <<"#list", "#store">>,
      <<"#status">>,
      <<"#clear", "#memory">>,
      <<"#export">>,
      <<"#export", "#pdf">>,
      <<"#select", "#store", "a">>,
      <<"#rename", "a", "#in", "b">>,
      <<"#delete", "a">>,
      <<"#in", "#store", "a", "?">> }

----------------------------------------------------------------------------
(* Values of the variables a specification does not use *)

Idle == [op |-> "none"]

RouterIdle     == notebooks = <<>> /\ routed = Idle
ClassifierIdle ==
    question = <<>> /\ response = Idle /\ processed = Idle /\ picked = Idle
BotIdle        == stores = <<>> /\ user_state = Idle /\ user_data = Idle /\ run = Idle

routerVars     == <<notebooks, routed>>
classifierVars == <<question, response, processed, picked>>
botVars        == <<stores, user_state, user_data, run>>

MultistoreIdle == futures = <<>> /\ results = <<>> /\ returned = Idle
MemoryIdle     == max_messages = 0 /\ memory = Idle /\ appended = Idle
StateIdle      == calls = <<>>
CleanupIdle    == now = 0 /\ contexts = Idle /\ swept = Idle
SideIdle       == MultistoreIdle /\ MemoryIdle /\ StateIdle /\ CleanupIdle

multistoreVars == <<futures, results, returned>>
memoryVars     == <<max_messages, memory, appended>>
stateVars      == <<calls>>
cleanupVars    == <<now, contexts, swept>>
sideVars       == <<multistoreVars, memoryVars, stateVars, cleanupVars>>

----------------------------------------------------------------------------
(* SpecMatch: one name looked up in a catalog *)

InitMatch ==
    /\ notebooks \in Catalogs
    /\ routed = Idle
    /\ ClassifierIdle /\ BotIdle /\ SideIdle

Match ==
    \E name \in StringsUpTo(MaxNameLen) :
        /\ routed = Idle
        /\ routed' = [op |-> "match", name |-> name,
                      match |-> BestMatch(name, notebooks)]
        /\ UNCHANGED <<notebooks, classifierVars, botVars, sideVars>>

NextMatch == Match

SpecMatch == InitMatch /\ [][NextMatch]_vars

----------------------------------------------------------------------------
(* SpecRouter: the two routing entry points on a fixed catalog *)

InitRouter ==
    /\ notebooks \in Catalogs
    /\ routed = Idle
    /\ ClassifierIdle /\ BotIdle /\ SideIdle

Route ==
    \E reply \in RouteReplies, max_notebooks \in 1..MaxResults :
        /\ routed = Idle
        /\ routed' = [op |-> "route", reply |-> reply, max |-> max_notebooks,
                      result |-> route(notebooks, reply, max_notebooks)]
        /\ UNCHANGED <<notebooks, classifierVars, botVars, sideVars>>

RouteWithReasoning ==
    \E reply \in ReasoningReplies, max_notebooks \in 1..MaxResults :
      \E reply2 \in IF reply.kind = "nojson" THEN RouteReplies ELSE {[kind |-> "unused"]} :
        /\ routed = Idle
        /\ routed' = [op |-> "route_with_reasoning", reply |-> reply,
                      reply2 |-> reply2, max |-> max_notebooks,
                      result |-> route_with_reasoning(notebooks, reply, reply2,
                                                      max_notebooks)]
        /\ UNCHANGED <<notebooks, classifierVars, botVars, sideVars>>

NextRouter == Route \/ RouteWithReasoning

SpecRouter == InitRouter /\ [][NextRouter]_vars

----------------------------------------------------------------------------
(* Claims about the router (SpecRouter) and the matcher (SpecMatch) *)

Routed == routed.op \in {"route", "route_with_reasoning"}

\* C6: for a non-empty catalog, any max_results >= 1 and any LLM reply or
\* failure, route and route_with_reasoning return at least one store.
C6_RouterNeverEmpty ==
    (Routed /\ notebooks # <<>>) => routed.result # <<>>

\* C7: the list the router returns holds no store twice, holds only stores
\* of the router's catalog and is at most max_results long, whatever names
\* the LLM returned.
C7_RoutedFromCatalog ==
    Routed =>
        /\ Len(routed.result) <= routed.max
        /\ \A i \in 1..Len(routed.result) : InSeq(routed.result[i], notebooks)
        /\ \A i, j \in 1..Len(routed.result) :
               i # j => routed.result[i] # routed.result[j]

\* C7 witness: an answer with two different names that match the same
\* store was mapped onto a catalog of several stores.
C7_Witness ==
    /\ Routed
    /\ routed.reply.kind = "names"
    /\ Len(notebooks) >= 2
    /\ \E i, j \in 1..Len(routed.reply.names) :
           /\ routed.reply.names[i] # routed.reply.names[j]
           /\ BestMatch(routed.reply.names[i], notebooks) # 0
           /\ BestMatch(routed.reply.names[i], notebooks)
                  = BestMatch(routed.reply.names[j], notebooks)
    /\ Len(routed.result) = 1

\* C8: when the catalog holds an entry whose name equals the looked-up name
\* under case-insensitive comparison, the matcher returns such an entry.
C8_ExactMatchWins ==
    (/\ routed.op = "match"
     /\ \E i \in 1..Len(notebooks) :
            Lower(notebooks[i].name) = Lower(routed.name))
        => /\ routed.match # 0
           /\ Lower(notebooks[routed.match].name) = Lower(routed.name)

\* the score of candidate nb_name for the query: the larger of the
\* substring score and the word-overlap score
ScoreOf(query, nb_name) ==
    IF FracGT(OverlapScore(query, nb_name), PartialScore(query, nb_name))
    THEN OverlapScore(query, nb_name)
    ELSE PartialScore(query, nb_name)

\* the candidates that score above zero and no lower than any other
Highest(query, nbs) ==
    { i \in 1..Len(nbs) :
        /\ FracGT(ScoreOf(query, Lower(nbs[i].name)), Zero)
        /\ \A j \in 1..Len(nbs) :
               ~FracGT(ScoreOf(query, Lower(nbs[j].name)),
                       ScoreOf(query, Lower(nbs[i].name))) }

\* no candidate's name equals the query
NoneEqual(query, nbs) ==
    \A i \in 1..Len(nbs) : Lower(nbs[i].name) # query

\* the query as the matcher compares it: lowercased, surrounding blanks
\* removed
QueryOf(name) == Strip(Lower(name))

\* C23: when no candidate name equals the query, the matcher returns the
\* candidate with the highest score, the score of a candidate being the
\* larger of its substring score and its word-overlap score; of several
\* candidates with that score the first of the catalog wins, and nothing
\* is returned when no candidate scores above zero.
C23_HighestScoreWins ==
    (routed.op = "match" /\ NoneEqual(QueryOf(routed.name), notebooks)) =>
        routed.match = First(Highest(QueryOf(routed.name), notebooks))

\* two candidates share the highest score, the word-overlap score of one
\* being larger than its substring score
C23_Witness ==
    /\ routed.op = "match"
    /\ NoneEqual(QueryOf(routed.name), notebooks)
    /\ Cardinality(Highest(QueryOf(routed.name), notebooks)) >= 2
    /\ \E i \in Highest(QueryOf(routed.name), notebooks) :
          FracGT(OverlapScore(QueryOf(routed.name), Lower(notebooks[i].name)),
                 PartialScore(QueryOf(routed.name), Lower(notebooks[i].name)))
    /\ routed.match = First(Highest(QueryOf(routed.name), notebooks))

----------------------------------------------------------------------------
(* SpecClassifier: one question classified, then its action resolved *)

InitClassifier ==
    /\ question \in Questions
    /\ response \in Responses
    /\ processed = Idle
    /\ picked = Idle
    /\ RouterIdle /\ BotIdle /\ SideIdle

Classify ==
    /\ processed = Idle
    /\ processed' = process_query(question, response)
    /\ UNCHANGED <<question, response, picked, routerVars, botVars, sideVars>>

PickAction ==
    /\ processed # Idle
    /\ picked = Idle
    /\ picked' = [op |-> "picked"] @@ _pick_action(processed, question)
    /\ UNCHANGED <<question, response, processed, routerVars, botVars, sideVars>>

NextClassifier == Classify \/ PickAction

SpecClassifier == InitClassifier /\ [][NextClassifier]_vars

----------------------------------------------------------------------------
(* Claims about the classifier and action resolution (SpecClassifier) *)

\* the classifier carries an action other than "none" with enough confidence
Confident ==
    /\ processed.action \notin {NULL, "", "none"}
    /\ processed.confidence >= ACTION_CONFIDENCE_THRESHOLD

\* C1 as stated: a confident classifier action X is the resolved action,
\* with the classifier's action_args, whatever the heuristics infer.
C1_ClassifierActionAndArgs ==
    (picked.op = "picked" /\ Confident) =>
        /\ picked.action = processed.action
        /\ picked.args = processed.action_args

\* C1 amended: a confident classifier action X is the resolved action
\* whatever the heuristics infer; the arguments are the classifier's
\* action_args when that is a mapping and the empty mapping otherwise.
C1_ClassifierActionWins ==
    (picked.op = "picked" /\ Confident) =>
        /\ picked.action = processed.action
        /\ picked.args = IF processed.action_args.kind = "dict"
                         THEN processed.action_args ELSE EmptyDict

\* C1 witness: the classifier's confident action was resolved although the
\* heuristics infer another action for the same text.
C1_Witness ==
    /\ picked.op = "picked" /\ Confident
    /\ infer_action_from_text(question).action \notin {NULL, processed.action}
    /\ picked.action = processed.action
    /\ picked.args.keys # {}

\* the LLM call failed or its text could not be parsed
Failed ==
    \/ response.kind \in {"exception", "nojson", "badjson"}
    \/ /\ response.kind = "json"
       /\ "confidence" \in response.has
       /\ response.confidence.kind \in {"null", "text"}

\* C4: for a failed call, a non-JSON or a malformed response process_query
\* returns the fallback (query_type single, the original question as
\* prompt, no action, confidence 0.0, complexity medium) and never raises.
C4_FallbackOnFailure ==
    (processed # Idle /\ Failed) =>
        /\ processed.op = "processed"
        /\ processed.query_type = "single"
        /\ processed.optimized_prompt = question
        /\ processed.action = NULL
        /\ processed.confidence = 0
        /\ processed.complexity = "medium"

\* C4 witness: a response with braces that is not JSON was classified.
C4_Witness ==
    /\ response.kind = "badjson"
    /\ processed = Fallback(question)
    /\ question # <<>>

\* the five fields of the fixed fallback
IsFixedFallback ==
    /\ processed.query_type = "single"
    /\ processed.optimized_prompt = question
    /\ processed.action = NULL
    /\ processed.confidence = 0
    /\ processed.complexity = "medium"

\* C5 as stated: on any parse failure, a valid JSON object with missing
\* fields included, the result is exactly the fixed fallback.
C5_MissingFieldsGiveFallback ==
    (processed.op = "processed"
        /\ (Failed \/ (response.kind = "json" /\ response.has # JsonKeys)))
        => IsFixedFallback

\* C5 amended: the fixed fallback is the result of a failed parse only; in
\* a valid JSON object every present field is kept and every missing field
\* takes its own default (single, the original question, no action,
\* confidence 0.5, medium).
C5_MissingFieldsDefault ==
    processed.op = "processed" =>
        IF Failed THEN IsFixedFallback
        ELSE /\ processed.query_type =
                   IF "query_type" \in response.has THEN response.query_type
                   ELSE "single"
             /\ processed.optimized_prompt =
                   IF "optimized_prompt" \in response.has
                   THEN response.optimized_prompt ELSE question
             /\ processed.action =
                   IF "action" \in response.has THEN response.action ELSE NULL
             /\ processed.confidence =
                   IF "confidence" \in response.has
                   THEN response.confidence.tenths ELSE 5
             /\ processed.complexity =
                   IF "complexity" \in response.has THEN response.complexity
                   ELSE "medium"

\* C5 witness: an object without confidence and action was parsed.
C5_Witness ==
    /\ processed.op = "processed"
    /\ response.kind = "json"
    /\ response.has = {"query_type"}
    /\ processed.query_type = "multistore"
    /\ processed.confidence = 5

----------------------------------------------------------------------------
(* user_state.py: the selected store of every user.  The state maps a     *)
(* user to Absent or to the id and name of the selected store.            *)

Users == {"u1", "u2", "u3"}

set_selected_store(state, user_id, store_id, store_name) ==
    [state EXCEPT ![user_id] = [selected_store_id |-> store_id,
                                selected_store_name |-> store_name]]

\* clear_selected_store that empties the whole state
clear_selected_store_any(state, user_id) == [u \in Users |-> Absent]

clear_selected_store(state, user_id) ==
    [state EXCEPT ![user_id] = Absent]

get_selected_store(state, user_id) == state[user_id]

\* clear_store_for_all that stops at the first user it removes
clear_store_for_all_first(state, store_id) ==
    LET to_remove == {u \in Users : state[u] # Absent
                                     /\ state[u].selected_store_id = store_id}
    IN  IF to_remove = {} THEN state
        ELSE [state EXCEPT ![CHOOSE u \in to_remove : TRUE] = Absent]

clear_store_for_all(state, store_id) ==
    IF store_id = "" THEN state
    ELSE LET to_remove == {u \in Users : state[u] # Absent
                                          /\ state[u].selected_store_id = store_id}
         IN  [u \in Users |-> IF u \in to_remove THEN Absent ELSE state[u]]

----------------------------------------------------------------------------
(* gemini_client.py: the registry of stores *)

NoStore == [kind |-> "nostore"]

\* the store at index m, None for index 0
StoreAt(sts, m) == IF m = 0 THEN NoStore ELSE sts[m]

get_store_by_id(sts, store_id) ==
    StoreAt(sts, First({i \in 1..Len(sts) : sts[i].id = store_id}))

\* find_store_by_name(name): the fuzzy matcher over the registry; exact
\* match under case-insensitive comparison first, then the best substring
\* or word-overlap score, None when nothing scores above zero
find_store_by_name(name, sts) ==
    StoreAt(sts, MatchLoop(Lower(name), sts, 1, <<0, Zero>>))

\* delete_store(store_id) after the API call succeeded
RemoveStore(sts, store_id) == SelectSeq(sts, LAMBDA st : st.id # store_id)

----------------------------------------------------------------------------
(* bot.py: the handlers.  A handler is an operator on a world w: the      *)
(* registry, the selections, context.user_data of every user, the trace t *)
(* of the run (handlers called, retrieval calls, what was sent) and the   *)
(* answers env the collaborators are going to give during the run.        *)
(* The bot is configured (gemini_client, router and query_processor       *)
(* exist); the router reads its catalog from the registry's file.         *)

ALLOWED_USERS == {"u1", "u2"}
ADMIN_USER_ID == "u1"

check_user_allowed(user_id) == user_id \in ALLOWED_USERS
is_admin(user_id) == user_id = ADMIN_USER_ID

SelectCmd == <<"/", "s", "e", "l", "e", "c", "t">>
DeleteCmd == <<"/", "d", "e", "l", "e", "t", "e">>
AddCmd    == <<"/", "a", "d", "d">>
RenameCmd == <<"/", "r", "e", "n", "a", "m", "e">>
ExportCmd == "/export"
CompareCmd == "/compare"

\* the arguments "clear", "reset", "none" of /select
ClearWords == {<<"c", "l", "e", "a", "r">>, <<"r", "e", "s", "e", "t">>,
               <<"n", "o", "n", "e">>}

_build_command_text(command, part) ==
    IF part # <<>> THEN command \o <<" ">> \o part ELSE command

\* re.sub(r'^/cmd\s*', '', text).strip()
StripCommand(text, command) ==
    IF Len(text) >= Len(command) /\ SubSeq(text, 1, Len(command)) = command
    THEN Strip(SubSeq(text, Len(command) + 1, Len(text)))
    ELSE Strip(text)

NoUserData == [last_response |-> Absent, force_question_mode |-> FALSE,
               export_after_answer |-> NULL]

NewRun(handler, user_id, text) ==
    [op |-> "run", handler |-> handler, user |-> user_id, text |-> text,
     calls |-> <<>>, classified |-> 0, first |-> Idle, forced |-> FALSE,
     resolved |-> FALSE, action |-> NULL, args |-> EmptyDict,
     question |-> <<>>, processed |-> Idle, source |-> "none", store |-> "",
     reply |-> Idle, retrievals |-> <<>>, exports |-> <<>>, selectors |-> {},
     missing |-> <<>>, remembered |-> <<>>, outcome |-> "none"]

\* update.message.reply_text / status_msg.edit_text: the last message sent
Say(w, outcome) == [w EXCEPT !.t.outcome = outcome]

Called(w, handler) == [w EXCEPT !.t.calls = Append(@, handler)]

Retrieval(w, call, store_id) ==
    [w EXCEPT !.t.retrievals = Append(@, [call |-> call, store |-> store_id])]

_get_selected_store_for_user(w, user_id) ==
    LET state == get_selected_store(w.user_state, user_id)
    IN  IF state = Absent THEN NoStore
        ELSE get_store_by_id(w.stores, state.selected_store_id)

\* list_stores, check_status, clear_memory, start: they read the registry
\* and the selection and answer
simple_command(w, user_id, handler) ==
    IF ~check_user_allowed(user_id)
    THEN Say(Called(w, handler), "access_denied")
    ELSE Say(Called(w, handler), handler)

\* select_store, bot.py 566-572: the store the name resolved to
select_store_found(w, user_id, store) ==
    IF store = NoStore THEN Say(w, "store_not_found")
    ELSE Say([w EXCEPT !.user_state =
                  set_selected_store(@, user_id, store.id, store.name)],
             "selected")

\* select_store, bot.py 540-564: the checks on the arguments
select_store_args(w, user_id, args_text) ==
    IF ~check_user_allowed(user_id) THEN Say(w, "access_denied")
    ELSE IF args_text = <<>> THEN Say(w, "usage")
    ELSE IF Lower(args_text) \in ClearWords
    THEN Say([w EXCEPT !.user_state = clear_selected_store(@, user_id)],
             "selection_cleared")
    ELSE select_store_found(w, user_id,
                            find_store_by_name(args_text, w.stores))

\* select_store, bot.py 538-572.  The pattern r'^/select\\s*' asks for a
\* backslash after /select, so the text is kept whole.
select_store(w, user_id, text) ==
    select_store_args(Called(w, "select_store"), user_id, Strip(text))

\* delete_store that does not reload the router's library
delete_store_found_stale(w, user_id, store) ==
    IF store = NoStore THEN Say(w, "store_not_found")
    ELSE IF w.env.api_ok
    THEN Say([w EXCEPT
                !.stores = RemoveStore(@, store.id),
                !.user_state = clear_store_for_all(@, store.id),
                !.t.store = store.id],
             "deleted")
    ELSE Say(w, "delete_failed")

\* delete_store, bot.py 650-664: the store the name resolved to
delete_store_found(w, user_id, store) ==
    IF store = NoStore THEN Say(w, "store_not_found")
    ELSE IF w.env.api_ok
    THEN Say([w EXCEPT
                !.stores = RemoveStore(@, store.id),
                !.notebooks = RemoveStore(w.stores, store.id),
                !.user_state = clear_store_for_all(@, store.id),
                !.t.store = store.id,
                !.t.selectors =
                    {u \in Users : w.user_state[u] # Absent
                        /\ w.user_state[u].selected_store_id = store.id}],
             "deleted")
    ELSE Say(w, "delete_failed")

\* delete_store, bot.py 633-648: the checks on the caller and the arguments
delete_store_args(w, user_id, args_text) ==
    IF ~check_user_allowed(user_id) THEN Say(w, "access_denied")
    ELSE IF ~is_admin(user_id) THEN Say(w, "admin_only")
    ELSE IF args_text = <<>> THEN Say(w, "usage")
    ELSE delete_store_found(w, user_id,
                            find_store_by_name(args_text, w.stores))

\* delete_store without the check of the administrator
delete_store_unchecked(w, user_id, text) ==
    delete_store_found(Called(w, "delete_store"), user_id,
                       find_store_by_name(StripCommand(text, DeleteCmd),
                                          w.stores))

\* delete_store, bot.py 631-664
delete_store(w, user_id, text) ==
    delete_store_args(Called(w, "delete_store"), user_id,
                      StripCommand(text, DeleteCmd))

\* position of the first "|" of s, 0 for none
BarAt(s) == First({i \in 1..Len(s) : s[i] = "|"})

\* s.split("|", 1)[0] and [1]
BeforeBar(s) == IF BarAt(s) = 0 THEN s ELSE SubSeq(s, 1, BarAt(s) - 1)
AfterBar(s)  == IF BarAt(s) = 0 THEN <<>> ELSE SubSeq(s, BarAt(s) + 1, Len(s))

\* gemini_client.create_store after the API call succeeded: the store is
\* registered under the id the API gave it
create_store(sts, store_id, name) ==
    Append(sts, [id |-> store_id, name |-> name])

\* add_store, bot.py 231-257: the name is the text before the first "|"
add_store_named(w, user_id, name) ==
    IF name = <<>> THEN Say(w, "usage")
    ELSE IF w.env.api_ok
    THEN Say([w EXCEPT
                !.stores = create_store(@, w.env.new_id, name),
                !.notebooks = create_store(w.stores, w.env.new_id, name),
                !.t.store = w.env.new_id],
             "created")
    ELSE Say(w, "create_failed")

\* add_store, bot.py 207-229: the checks on the caller and the arguments
add_store_args(w, user_id, args_text) ==
    IF ~check_user_allowed(user_id) THEN Say(w, "access_denied")
    ELSE IF ~is_admin(user_id) THEN Say(w, "admin_only")
    ELSE IF args_text = <<>> THEN Say(w, "usage")
    ELSE add_store_named(w, user_id, Strip(BeforeBar(args_text)))

\* add_store, bot.py 205-257
add_store(w, user_id, text) ==
    add_store_args(Called(w, "add_store"), user_id,
                   StripCommand(text, AddCmd))

\* gemini_client.update_store_metadata(store_id, name=new_name)
update_store_metadata(sts, store_id, new_name) ==
    [i \in 1..Len(sts) |->
        IF sts[i].id = store_id THEN [sts[i] EXCEPT !.name = new_name]
        ELSE sts[i]]

\* rename_store, bot.py 714-735: the store the old name resolved to; the
\* caller's selection follows the new name
rename_store_found(w, user_id, store, new_name) ==
    IF store = NoStore THEN Say(w, "store_not_found")
    ELSE Say([w EXCEPT
                !.stores = update_store_metadata(@, store.id, new_name),
                !.notebooks = update_store_metadata(w.stores, store.id,
                                                    new_name),
                !.user_state =
                    IF @[user_id] # Absent
                       /\ @[user_id].selected_store_id = store.id
                    THEN set_selected_store(@, user_id, store.id, new_name)
                    ELSE @,
                !.t.store = store.id],
             "renamed")

\* rename_store, bot.py 707-714: both names are needed
rename_store_names(w, user_id, old_name, new_name) ==
    IF old_name = <<>> \/ new_name = <<>> THEN Say(w, "usage")
    ELSE rename_store_found(w, user_id,
                            find_store_by_name(old_name, w.stores), new_name)

\* rename_store, bot.py 669-705: the checks on the caller and the
\* arguments; the names are separated by "|" (the separators "->", "=>",
\* " to " and the Russian ones do not occur in the texts of this model)
rename_store_args(w, user_id, args_text) ==
    IF ~check_user_allowed(user_id) THEN Say(w, "access_denied")
    ELSE IF ~is_admin(user_id) THEN Say(w, "admin_only")
    ELSE IF args_text = <<>> THEN Say(w, "usage")
    ELSE IF BarAt(args_text) = 0 THEN Say(w, "usage")
    ELSE rename_store_names(w, user_id, Strip(BeforeBar(args_text)),
                            Strip(AfterBar(args_text)))

\* rename_store, bot.py 667-735.  The pattern r'^/rename\\s*' asks for a
\* backslash after /rename, so the text is kept whole.
rename_store(w, user_id, text) ==
    rename_store_args(Called(w, "rename_store"), user_id, Strip(text))

\* _send_answer without the deferred export
_send_answer_no_export(w, user_id, q, store_name) ==
    [w EXCEPT
       !.user_data[user_id].last_response =
           [kind |-> "saved", store |-> store_name],
       !.user_data[user_id].export_after_answer = NULL,
       !.t.outcome = "answer"]

\* _send_answer, bot.py 1958-1991: the answer is kept for export and the
\* deferred export, if one was asked for, is made.  Of the answer kept the
\* model holds the store it came from.
_send_answer(w, user_id, q, store_name) ==
    [w EXCEPT
       !.user_data[user_id].last_response =
           [kind |-> "saved", store |-> store_name],
       !.user_data[user_id].export_after_answer = NULL,
       !.t.outcome = "answer",
       !.t.exports =
           IF w.user_data[user_id].export_after_answer \in {"pdf", "docx"}
           THEN Append(@, [format |-> w.user_data[user_id].export_after_answer,
                           of |-> "answer", store |-> store_name])
           ELSE @]

\* the name of the store a single-store query is for: the classifier's
\* target store or the hint in the question, bot.py 1888
target_store_name(q, p) ==
    IF p.target_store # <<>> THEN p.target_store
    ELSE extract_target_store_hint(q)

\* bot.py 1889-1890
named_store(w, name) ==
    IF name # <<>> THEN find_store_by_name(name, w.stores) ELSE NoStore

\* pick_store with the user's selection asked before the named store
pick_store_selection_first(w, p, named, selected_store, selected) ==
    IF selected_store # NoStore
    THEN [store |-> selected_store, source |-> "selection"]
    ELSE IF named # NoStore
    THEN [store |-> named,
          source |-> IF p.target_store # <<>> THEN "target" ELSE "hint"]
    ELSE IF Len(w.stores) > 1 /\ selected # <<>>
    THEN [store |-> selected[1], source |-> "router"]
    ELSE [store |-> w.stores[1], source |-> "first"]

\* handle_question, bot.py 1886-1911: the order in which the named store,
\* the user's selection, the router's choice and the first store are taken
pick_store(w, p, named, selected_store, selected) ==
    IF named # NoStore
    THEN [store |-> named,
          source |-> IF p.target_store # <<>> THEN "target" ELSE "hint"]
    ELSE IF selected_store # NoStore
    THEN [store |-> selected_store, source |-> "selection"]
    ELSE IF Len(w.stores) > 1 /\ selected # <<>>
    THEN [store |-> selected[1], source |-> "router"]
    ELSE [store |-> w.stores[1], source |-> "first"]

\* handle_question, bot.py 1886-1911: the store of a single-store query
\* and where it came from
resolve_store(w, user_id, q, p) ==
    pick_store(w, p, named_store(w, target_store_name(q, p)),
               _get_selected_store_for_user(w, user_id),
               route_with_reasoning(w.notebooks, w.env.reply, w.env.reply2, 1))

\* memory_client.add_message(user_id, scope, role, ...) for every
\* <<scope, role>> of notes
Remember(w, user_id, notes) ==
    [w EXCEPT !.t.remembered =
        @ \o [i \in 1..Len(notes) |->
                 [user |-> user_id, scope |-> notes[i][1], role |-> notes[i][2]]]]

\* the end of a retrieval call: env.ans is what the call gives, "text",
\* "none" (no answer) or "raise"; notes are the messages the branch adds
\* to the memory when there is an answer
answered(w, user_id, q, label, failure, notes) ==
    IF w.env.ans = "raise" THEN Say(w, "error")
    ELSE IF w.env.ans = "text"
    THEN _send_answer(Remember(w, user_id, notes), user_id, q, label)
    ELSE Say(w, failure)

\* answer_single that asks the store a second time
answer_single_retry(w, user_id, q, p, r) ==
    answered(
        Retrieval(
            Retrieval([w EXCEPT !.t.source = r.source,
                                !.t.store = r.store.id],
                      "ask_question", r.store.id),
            "ask_question", r.store.id),
        user_id, q, r.store.name, "no_answer",
        <<<<r.store.id, "assistant">>>>)

\* handle_question, bot.py 1886-1945: the query of the store r.store
answer_single(w, user_id, q, p, r) ==
    answered(
        Retrieval(
            [Remember(w, user_id, <<<<r.store.id, "user">>>>) EXCEPT
               !.t.source = r.source, !.t.store = r.store.id,
               !.t.reply = IF r.source \in {"router", "first"}
                              /\ Len(w.stores) > 1
                           THEN [op |-> "routed", reply |-> w.env.reply,
                                 reply2 |-> w.env.reply2]
                           ELSE Idle],
            IF p.include_sources THEN "ask_with_sources" ELSE "ask_question",
            r.store.id),
        user_id, q, r.store.name, "no_answer",
        <<<<r.store.id, "assistant">>>>)

\* answer_compare asking the stores before it has resolved their names
answer_compare_unchecked(w, user_id, q, p) ==
    answered(Retrieval(w, "compare_stores", ""), user_id, q, "compare",
             "compare_failed", <<>>)

\* handle_question, bot.py 1848-1884: the comparison of two stores
answer_compare(w, user_id, q, p) ==
    IF \/ Len(p.target_stores) < 2
       \/ find_store_by_name(p.target_stores[1], w.stores) = NoStore
       \/ find_store_by_name(p.target_stores[2], w.stores) = NoStore
    THEN Say(w, "compare_failed")
    ELSE answered(Retrieval(w, "compare_stores", ""), user_id, q, "compare",
                  "compare_failed", <<>>)

\* f"Store not found: {store_name}"
NotFound(w, store_name) ==
    [w EXCEPT !.t.outcome = "store_not_found", !.t.missing = store_name]

\* compare_stores, bot.py 1219-1254: the comparison is asked for and sent,
\* without the export keyboard of _send_answer
compare_stores_found(w) ==
    IF w.env.ans = "raise"
    THEN Say(Retrieval(w, "compare_stores", ""), "error")
    ELSE IF w.env.ans = "text"
    THEN Say(Retrieval(w, "compare_stores", ""), "comparison")
    ELSE Say(Retrieval(w, "compare_stores", ""), "compare_failed")

\* compare_stores, bot.py 1198-1217: parts = args_text.split(None, 2); a
\* part is a word, a store name of one letter
compare_stores_args(w, user_id, parts) ==
    IF ~check_user_allowed(user_id) THEN Say(w, "access_denied")
    ELSE IF parts = <<>> THEN Say(w, "usage")
    ELSE IF Len(parts) < 3 THEN Say(w, "compare_usage")
    ELSE IF find_store_by_name(<<parts[1]>>, w.stores) = NoStore
    THEN NotFound(w, <<parts[1]>>)
    ELSE IF find_store_by_name(<<parts[2]>>, w.stores) = NoStore
    THEN NotFound(w, <<parts[2]>>)
    ELSE compare_stores_found(w)

\* compare_stores, bot.py 1172-1254.  The text is a sequence of words, the
\* command word first.
compare_stores(w, user_id, text) ==
    compare_stores_args(Called(w, "compare_stores"), user_id,
                        IF text # <<>> /\ Head(text) = CompareCmd
                        THEN Tail(text) ELSE text)

\* handle_question, bot.py 1838-1855: the answer over all the stores is
\* sent whatever the stores gave
answer_multistore(w, user_id, q) ==
    IF w.env.ans = "raise" THEN Say(w, "error")
    ELSE _send_answer(Remember(w, user_id, <<<<"global", "user">>,
                                              <<"global", "assistant">>>>),
                      user_id, q, "multistore")

\* handle_question, bot.py 1806-1955: the branches of a document query
answer_branch(w, user_id, q, p) ==
    IF p.query_type = "web_search"
    THEN answered(Retrieval(w, "ask_with_web_search", ""), user_id, q, "web",
                  "web_search_failed",
                  <<<<"web", "user">>, <<"web", "assistant">>>>)
    ELSE IF p.query_type = "multistore"
    THEN answer_multistore(Retrieval(w, "ask_multistore_parallel", ""),
                           user_id, q)
    ELSE IF p.query_type = "compare" THEN answer_compare(w, user_id, q, p)
    ELSE answer_single(w, user_id, q, p, resolve_store(w, user_id, q, p))

\* handle_question, bot.py 1806-1955: the query of a question q that was
\* classified as p
answer_query(w, user_id, q, p) ==
    answer_branch([w EXCEPT !.t.question = q, !.t.processed = p],
                  user_id, q, p)

RECURSIVE handle_question(_, _, _)

\* export_response, bot.py 1262-1302: the text after the command word
export_response_args(w, user_id, args_text) ==
    IF ~check_user_allowed(user_id) THEN Say(w, "access_denied")
    ELSE IF args_text # <<>>
    THEN handle_question(
             [w EXCEPT !.user_data[user_id].force_question_mode = TRUE],
             user_id, args_text)
    ELSE IF w.user_data[user_id].last_response = Absent
    THEN Say(w, "nothing_to_export")
    ELSE Say(w, "choose_format")

\* export_response, bot.py 1257-1302.  A text is a sequence of words; the
\* command word /export, when it is there, comes first.
export_response(w, user_id, text) ==
    export_response_args(Called(w, "export_response"), user_id,
                         IF text # <<>> /\ Head(text) = ExportCmd
                         THEN Tail(text) ELSE text)

\* _dispatch_action_intent, bot.py 1583-1599: the commands without
\* arguments
simple_action(w, user_id, action) ==
    simple_command(w, user_id,
                   CASE action \in {"list_stores", "stores"} -> "list_stores"
                     [] action = "status"       -> "check_status"
                     [] action = "clear_memory" -> "clear_memory"
                     [] action = "help"         -> "start")

\* _dispatch_action_intent, bot.py 1601-1608 and 1624-1631: the commands on
\* the store called named
store_action(w, user_id, action, named) ==
    IF named = <<>> THEN Say(w, "specify_store")
    ELSE IF action = "select_store"
    THEN select_store(w, user_id, _build_command_text(SelectCmd, named))
    ELSE delete_store(w, user_id, _build_command_text(DeleteCmd, named))

\* _dispatch_action_intent, bot.py 1605-1616: add_store; the description
\* is not among the arguments of this model
add_action(w, user_id, store_name) ==
    IF store_name = <<>> THEN Say(w, "specify_store")
    ELSE add_store(w, user_id, _build_command_text(AddCmd, store_name))

\* _dispatch_action_intent, bot.py 1631-1642: rename_store
rename_action(w, user_id, old_name, new_name) ==
    IF old_name = <<>> \/ new_name = <<>> THEN Say(w, "specify_names")
    ELSE rename_store(w, user_id,
                      RenameCmd \o <<" ">> \o old_name \o <<" ", "|", " ">>
                          \o new_name)

\* _dispatch_action_intent, bot.py 1648-1680: export of the answer kept,
\* or the export command
export_action(w, user_id, action_args, question_text, last_response) ==
    IF action_args.format \in {"pdf", "docx"}
    THEN IF last_response = Absent THEN Say(w, "nothing_to_export")
         ELSE Say([w EXCEPT !.t.exports =
                      Append(@, [format |-> action_args.format,
                                 of |-> "last_response",
                                 store |-> last_response.store])],
                  "export_sent")
    ELSE export_response(w, user_id, question_text)

\* _dispatch_action_intent, bot.py 1568-1723: <<handled, world>>.  The
\* actions sync_now, set_sync, upload_url and upload_file are not among the
\* actions this model's inputs lead to.
_dispatch_action_intent(w, user_id, action, action_args, question_text) ==
    IF action \in {NULL, ""} THEN <<FALSE, w>>
    ELSE IF action \in {"list_stores", "stores", "status", "clear_memory",
                        "help"}
    THEN <<TRUE, simple_action(w, user_id, action)>>
    ELSE IF action \in {"select_store", "delete_store"}
    THEN <<TRUE, store_action(w, user_id, action,
                     IF action_args.store_name # <<>>
                     THEN action_args.store_name
                     ELSE extract_target_store_hint(question_text))>>
    ELSE IF action = "add_store"
    THEN <<TRUE, add_action(w, user_id, action_args.store_name)>>
    ELSE IF action = "rename_store"
    THEN <<TRUE, rename_action(w, user_id, action_args.old_name,
                               action_args.new_name)>>
    ELSE IF action = "export"
    THEN <<TRUE, export_action(w, user_id, action_args, question_text,
                               w.user_data[user_id].last_response)>>
    ELSE <<FALSE, w>>

\* query_processor.process_query with the next answer of the LLM
Classified(w, q) == process_query(q, Head(w.env.resps))
AfterClassify(w) ==
    [w EXCEPT !.env.resps = Tail(@), !.t.classified = @ + 1]

\* handle_question, bot.py 1801-1804: the action was dispatched, or the
\* message is a document query
handle_dispatched(w, user_id, q, p, d) ==
    IF d[1] THEN d[2] ELSE answer_query(w, user_id, q, p)

\* handle_question, bot.py 1786-1804: an export with a question in its
\* arguments answers the question first; other actions are dispatched
handle_picked(w, user_id, q, p, pick) ==
    IF pick.action = "export" /\ "question" \in pick.args.keys
       /\ pick.args.question # <<>>
    THEN answer_query(
             [AfterClassify(w) EXCEPT
                !.user_data[user_id].export_after_answer = pick.args.format],
             user_id, pick.args.question,
             Classified(w, pick.args.question))
    ELSE handle_dispatched(
             w, user_id, q, p,
             _dispatch_action_intent(w, user_id, pick.action, pick.args, q))

\* handle_question, bot.py 1784: the action is resolved
handle_resolved(w, user_id, q, p, pick) ==
    handle_picked([w EXCEPT !.t.resolved = TRUE, !.t.action = pick.action,
                            !.t.args = pick.args],
                  user_id, q, p, pick)

\* handle_question, bot.py 1781-1784: force_question_mode is taken out of
\* user_data; when it was set, no action is looked for
handle_classified(w, user_id, q, p, force_question_mode) ==
    IF force_question_mode THEN answer_query(w, user_id, q, p)
    ELSE handle_resolved(w, user_id, q, p, _pick_action(p, q))

\* handle_question, bot.py 1770-1781: the question is classified
handle_text(w, user_id, q, p) ==
    handle_classified(
        [AfterClassify(w) EXCEPT
           !.user_data[user_id].force_question_mode = FALSE,
           !.t.first = IF @ = Idle THEN p ELSE @,
           !.t.forced = @ \/ w.user_data[user_id].force_question_mode],
        user_id, q, p, w.user_data[user_id].force_question_mode)

\* an exception that no except clause takes leaves the handler
Raises(w) == [w EXCEPT !.t.outcome = "raised"]

\* update.message.reply_text outside the try block of handle_question
Reply(w, outcome) ==
    IF w.env.transport_ok THEN Say(w, outcome) ELSE Raises(w)

\* the word that stands for the link of a Drive folder in a text
FolderLink == "#folder"

\* a check for folder links that finds none
has_folder_link_never(q) == FALSE

\* any(ftype == 'folder' for ... in extract_all_urls(question))
has_folder_link(q) == InSeq(FolderLink, q)

\* f"Tender_{uuid.uuid4().hex[:8]}" and the name the analysis finds
TempName   == <<"t">>
TenderName == <<"n">>

\* gemini_client.delete_store(store_id), gemini_client.py 406-427: the
\* store stays registered when the API call fails
folder_discard(w) ==
    IF w.env.api_ok
    THEN [w EXCEPT !.stores = RemoveStore(@, w.env.new_id)]
    ELSE w

\* handle_folder_link, bot.py 1457-1540: the temporary store is registered;
\* env.folder is what the drive client, the uploads and the analysis do
folder_ingest(w, user_id) ==
    CASE w.env.folder = "not_configured" -> Say(w, "drive_required")
      [] w.env.folder = "raises"         -> Say(w, "error")
      [] w.env.folder = "no_files"       -> Say(folder_discard(w), "no_files")
      [] w.env.folder = "upload_failed"  ->
             Say(folder_discard(w), "upload_failed")
      [] w.env.folder = "analysed"       ->
             Say([w EXCEPT
                    !.stores = update_store_metadata(@, w.env.new_id,
                                                     TenderName),
                    !.notebooks = update_store_metadata(w.stores,
                                                        w.env.new_id,
                                                        TenderName)],
                 "store_created")
      [] OTHER ->
             Say([w EXCEPT !.notebooks = w.stores], "store_created")

\* handle_folder_link, bot.py 1448-1455: gemini_client.create_store
folder_store(w, user_id) ==
    IF w.env.folder = "create_failed" THEN Say(w, "create_failed")
    ELSE folder_ingest(
             [w EXCEPT !.stores = create_store(@, w.env.new_id, TempName),
                       !.t.store = w.env.new_id],
             user_id)

\* handle_folder_link, bot.py 1412-1540, for a text with a folder link; it
\* returns True on every path.  Its first messages are sent outside a try
\* block.
handle_folder_link(w, user_id) ==
    IF ~is_admin(user_id) THEN Reply(w, "admin_only")
    ELSE IF ~w.env.transport_ok THEN Raises(w)
    ELSE folder_store(w, user_id)

\* handle_question, bot.py 1726-1768: the checks before the classification;
\* send_action and the status message come before the try block
handle_checked(w, user_id, q) ==
    IF ~check_user_allowed(user_id) THEN Reply(w, "access_denied")
    ELSE IF q = <<>> THEN w
    ELSE IF has_folder_link(q)
    THEN handle_folder_link(Called(w, "handle_folder_link"), user_id)
    ELSE IF w.stores = <<>> THEN Reply(w, "no_stores")
    ELSE IF ~w.env.transport_ok THEN Raises(w)
    ELSE handle_text(w, user_id, q, Classified(w, q))

\* handle_question, bot.py 1726-1955
handle_question(w, user_id, text) ==
    handle_checked(Called(w, "handle_question"), user_id, text)

----------------------------------------------------------------------------
(* Spec: the bot.  Two stores are registered, nobody has selected a store *)
(* or asked anything; u1 is the administrator, u3 is not allowed.  The    *)
(* updates are handled one after the other: run is the record of the     *)
(* update being handled, Idle between two updates.  u1 and u3 write       *)
(* questions and commands, u2 uses the commands /select and /delete.      *)

InitialStores == <<[id |-> "s1", name |-> <<"a">>],
                   [id |-> "s2", name |-> <<"B">>]>>

BotQuestions ==
    { <<"a", "?">>,
      <<"#in", "#store", "B", "?">>,
      <<"#list", "#store">>,
      <<"#export">>,
      <<"#select", "B">> }

\* the classifier's JSON with an action and its arguments
ActionJson(act, tenths, args) ==
    Json("single", TRUE, Rewritten, ConfNumber(tenths), ABSENT, act, args,
         FALSE, <<>>, <<>>)

\* the classifier's JSON of a document query
QueryJson(qt, src, target, pair) ==
    Json(qt, TRUE, Rewritten, ConfNumber(9), ABSENT, "none", Absent,
         src, target, pair)

BotResponses ==
    { [kind |-> "exception"],
      QueryJson("single", FALSE, <<>>, <<>>),
      QueryJson("single", TRUE, <<"a">>, <<>>),
      QueryJson("single", FALSE, <<"z">>, <<>>),
      QueryJson("multistore", FALSE, <<>>, <<>>),
      QueryJson("web_search", FALSE, <<>>, <<>>),
      QueryJson("compare", FALSE, <<>>, <<<<"a">>, <<"B">>>>),
      QueryJson("compare", FALSE, <<>>, <<<<"a">>, <<"z">>>>),
      QueryJson("compare", FALSE, <<>>, <<<<"a">>>>),
      ActionJson("list_stores", 9, EmptyDict),
      ActionJson("list_stores", 5, EmptyDict),
      ActionJson("summary", 9, EmptyDict),
      ActionJson("export", 9, EmptyDict),
      ActionJson("export", 9, Dict({"format"}, "pdf", <<>>, <<>>, <<>>, <<>>)),
      ActionJson("export", 9,
                 Dict({"format", "question"}, "pdf", AskedInExport,
                      <<>>, <<>>, <<>>)),
      ActionJson("export", 9,
                 Dict({"question"}, NULL, AskedInExport, <<>>, <<>>, <<>>)),
      ActionJson("delete_store", 9,
                 Dict({"store_name"}, NULL, <<>>, <<"B">>, <<>>, <<>>)),
      ActionJson("delete_store", 9, EmptyDict),
      ActionJson("add_store", 9, EmptyDict),
      ActionJson("rename_store", 9,
                 Dict({"old_name"}, NULL, <<>>, <<>>, <<"B">>, <<>>)) }

\* the classifier's answers to a request for an action on the catalog
RequestResponses ==
    { [kind |-> "exception"],
      ActionJson("delete_store", 9,
                 Dict({"store_name"}, NULL, <<>>, <<"B">>, <<>>, <<>>)),
      ActionJson("delete_store", 9, EmptyDict),
      ActionJson("add_store", 9,
                 Dict({"store_name"}, NULL, <<>>, <<"z">>, <<>>, <<>>)),
      ActionJson("add_store", 9, EmptyDict),
      ActionJson("rename_store", 9,
                 Dict({"old_name", "new_name"}, NULL, <<>>, <<>>,
                      <<"B">>, <<"b">>)),
      ActionJson("rename_store", 9,
                 Dict({"old_name"}, NULL, <<>>, <<>>, <<"B">>, <<>>)) }

\* the text in which a user who is not the administrator asks for an
\* action on the catalog
Requests == { <<"#delete", "#store", "B">> }

\* what the router's LLM answers: <<reply, reply2>>
BotRouterReplies ==
    { <<[kind |-> "names", names |-> <<<<"B">>>>], [kind |-> "unused"]>>,
      <<[kind |-> "names", names |-> <<>>], [kind |-> "unused"]>>,
      <<[kind |-> "nojson"], [kind |-> "names", names |-> <<<<"z">>>>]>> }

\* the classifier's answer for the question of an export
BotResponses2 ==
    { [kind |-> "exception"],
      QueryJson("single", FALSE, <<>>, <<>>),
      QueryJson("single", FALSE, <<"a">>, <<>>),
      QueryJson("multistore", FALSE, <<>>, <<>>),
      ActionJson("list_stores", 9, EmptyDict) }

Answers == {"text", "none", "raise"}

Chatters == {"u1", "u3"}

\* a clear word typed after /select
SelectWords == {<<"c", "l", "e", "a", "r">>}

\* names typed after /select and /delete
CommandNames == {<<>>, <<"a">>, <<"B">>, <<"z">>}

\* what happens to an ingestion: the store is not created, the drive
\* client has no service account, the download or an upload raises, the
\* folder gives no file, every upload fails, the analysis names the store
\* or does not
FolderOutcomes ==
    {"create_failed", "not_configured", "raises", "no_files",
     "upload_failed", "analysed", "not_analysed"}

DefaultEnv ==
    [resps |-> <<[kind |-> "exception"], [kind |-> "exception"]>>,
     reply |-> [kind |-> "error"], reply2 |-> [kind |-> "unused"],
     ans |-> "text", api_ok |-> TRUE, transport_ok |-> TRUE,
     new_id |-> "s3", folder |-> "not_analysed"]

World(handler, user_id, text, env) ==
    [stores |-> stores, notebooks |-> notebooks, user_state |-> user_state,
     user_data |-> user_data, t |-> NewRun(handler, user_id, text),
     env |-> env]

\* the handler the dispatcher of the chat library calls for the update
Handle(handler, user_id, text, env) ==
    CASE handler = "handle_question" ->
             handle_question(World(handler, user_id, text, env), user_id, text)
      [] handler = "export_response" ->
             export_response(World(handler, user_id, text, env), user_id, text)
      [] handler = "select_store" ->
             select_store(World(handler, user_id, text, env), user_id, text)
      [] handler = "delete_store" ->
             delete_store(World(handler, user_id, text, env), user_id, text)
      [] handler = "compare_stores" ->
             compare_stores(World(handler, user_id, text, env), user_id, text)
      [] handler = "add_store" ->
             add_store(World(handler, user_id, text, env), user_id, text)
      [] handler = "rename_store" ->
             rename_store(World(handler, user_id, text, env), user_id, text)

\* the handler has run to its end with the answers env
Commit(w) ==
    /\ stores' = w.stores
    /\ notebooks' = w.notebooks
    /\ user_state' = w.user_state
    /\ user_data' = w.user_data
    /\ run' = w.t
    /\ UNCHANGED <<routed, classifierVars, sideVars>>

\* the answers of the router, of the retrieval call and of the store API,
\* chosen when the run r asks for them
DeliverAnswers(handler, user_id, text, env, r) ==
    \E rr \in IF r.t.reply # Idle THEN BotRouterReplies
               ELSE {<<DefaultEnv.reply, DefaultEnv.reply2>>} :
    \E ans \in IF r.t.retrievals # <<>> THEN Answers ELSE {DefaultEnv.ans} :
    \E api_ok \in IF r.t.outcome \in {"deleted", "created"}
                     \/ r.t.store = DefaultEnv.new_id
                  THEN BOOLEAN ELSE {DefaultEnv.api_ok} :
    \E folder \in IF InSeq("handle_folder_link", r.t.calls)
                     /\ r.t.outcome \notin {"admin_only", "raised"}
                  THEN FolderOutcomes ELSE {DefaultEnv.folder} :
    \E transport_ok \in IF InSeq("handle_question", r.t.calls) THEN BOOLEAN
                        ELSE {DefaultEnv.transport_ok} :
        Commit(Handle(handler, user_id, text,
                      [env EXCEPT !.reply = rr[1], !.reply2 = rr[2],
                                  !.ans = ans, !.api_ok = api_ok,
                                  !.folder = folder,
                                  !.transport_ok = transport_ok]))

\* the classifier's answer to the question of an export, chosen when the
\* run r classifies twice
DeliverSecond(handler, user_id, text, env, r) ==
    \E resp2 \in IF r.t.classified >= 2 THEN BotResponses2
                  ELSE {DefaultEnv.resps[2]} :
        DeliverAnswers(handler, user_id, text,
                       [env EXCEPT !.resps[2] = resp2],
                       Handle(handler, user_id, text,
                              [env EXCEPT !.resps[2] = resp2]))

\* the classifier's answer, chosen when the run r classifies
DeliverFirst(handler, user_id, text, r) ==
    \E resp1 \in IF r.t.classified = 0 THEN {DefaultEnv.resps[1]}
                  ELSE IF text \in Requests THEN RequestResponses
                  ELSE BotResponses :
        DeliverSecond(handler, user_id, text,
                      [DefaultEnv EXCEPT !.resps[1] = resp1],
                      Handle(handler, user_id, text,
                             [DefaultEnv EXCEPT !.resps[1] = resp1]))

\* one update is handled to its end; an answer of a collaborator is chosen
\* only when the run asks that collaborator
Deliver(handler, user_id, text) ==
    DeliverFirst(handler, user_id, text,
                 Handle(handler, user_id, text, DefaultEnv))

HandleQuestion ==
    /\ run = Idle
    /\ \E user_id \in Chatters, text \in BotQuestions :
        Deliver("handle_question", user_id, text)

ExportResponse ==
    /\ run = Idle
    /\ \E user_id \in Chatters, text \in {<<>>, <<"a", "?">>} :
        Deliver("export_response", user_id, <<ExportCmd>> \o text)

SelectStore ==
    /\ run = Idle
    /\ \E user_id \in Users, name \in CommandNames \cup SelectWords :
        Deliver("select_store", user_id, _build_command_text(SelectCmd, name))

DeleteStore ==
    /\ run = Idle
    /\ \E user_id \in Users, name \in CommandNames :
        Deliver("delete_store", user_id, _build_command_text(DeleteCmd, name))

\* the words typed after /compare: two store names and a topic
CompareArgs ==
    {<<>>, <<"a", "B">>, <<"a", "B", "b">>, <<"z", "B", "b">>,
     <<"a", "z", "b">>}

CompareStores ==
    /\ run = Idle
    /\ \E user_id \in Chatters, parts \in CompareArgs :
        Deliver("compare_stores", user_id, <<CompareCmd>> \o parts)

\* a user who is allowed and is not the administrator asks for an action on
\* the catalog
HandleRequest ==
    /\ run = Idle
    /\ \E user_id \in ALLOWED_USERS \ {ADMIN_USER_ID}, text \in Requests :
        Deliver("handle_question", user_id, text)

\* who types what after /add: the administrator leaves the name out,
\* the others also give one
AddRequests ==
    ((Users \ {ADMIN_USER_ID}) \X {<<>>, <<"z">>, <<"|", "z">>})
        \cup ({ADMIN_USER_ID} \X {<<>>, <<"|", "z">>})

AddStore ==
    /\ run = Idle
    /\ \E req \in AddRequests :
        Deliver("add_store", req[1], _build_command_text(AddCmd, req[2]))

\* who types what after /rename: the administrator leaves the new name
\* out, the others also give both names
RenameRequests ==
    ((Users \ {ADMIN_USER_ID})
         \X {<<>>, <<"B">>, <<"B", " ", "|", " ", "b">>})
        \cup ({ADMIN_USER_ID} \X {<<>>, <<"B">>, <<"B", " ", "|">>})

RenameStore ==
    /\ run = Idle
    /\ \E req \in RenameRequests :
        Deliver("rename_store", req[1],
                _build_command_text(RenameCmd, req[2]))

Init ==
    /\ stores = InitialStores
    /\ notebooks = InitialStores
    /\ user_state = [u \in Users |-> Absent]
    /\ user_data = [u \in Users |-> NoUserData]
    /\ run = Idle
    /\ routed = Idle
    /\ ClassifierIdle /\ SideIdle

\* the handler has returned; the next update can be taken
Return ==
    /\ run # Idle
    /\ run' = Idle
    /\ UNCHANGED <<stores, notebooks, user_state, user_data, routed,
                   classifierVars, sideVars>>

Next ==
    \/ HandleQuestion \/ ExportResponse \/ SelectStore \/ DeleteStore
    \/ CompareStores \/ HandleRequest \/ AddStore \/ RenameStore \/ Return

Spec == Init /\ [][Next]_vars

----------------------------------------------------------------------------
(* SpecIngest: the bot and the links of Drive folders.  The two allowed    *)
(* users send a folder link, the administrator sends one after /export,    *)
(* writes plain messages and selects the ingested store, and the stores    *)
(* registered at the start are deleted with /delete.  The API gives a new  *)
(* store the id new_id, once.                                               *)

IngestQuestions == { <<"#list", "#store">>, <<"a", "?">> }

NoTemporary ==
    /\ Len(stores) < MaxStores
    /\ \A i \in 1..Len(stores) : stores[i].id # DefaultEnv.new_id

FolderMessage ==
    /\ run = Idle
    /\ NoTemporary
    /\ \E user_id \in ALLOWED_USERS :
        Deliver("handle_question", user_id, <<FolderLink>>)

ExportFolder ==
    /\ run = Idle
    /\ NoTemporary
    /\ Deliver("export_response", ADMIN_USER_ID, <<ExportCmd, FolderLink>>)

PlainMessage ==
    /\ run = Idle
    /\ \E text \in IngestQuestions :
        Deliver("handle_question", ADMIN_USER_ID, text)

\* the administrator selects the ingested store by its name
SelectIngested ==
    /\ run = Idle
    /\ \E name \in {TempName, TenderName} :
        Deliver("select_store", ADMIN_USER_ID,
                _build_command_text(SelectCmd, name))

NextIngest ==
    \/ FolderMessage \/ ExportFolder \/ PlainMessage \/ DeleteStore
    \/ SelectIngested \/ Return

SpecIngest == Init /\ [][NextIngest]_vars

----------------------------------------------------------------------------
(* Claims about the bot (Spec) *)

\* a text message for which _pick_action was called
Resolved == run.op = "run" /\ run.handler = "handle_question" /\ run.resolved

\* the actions _dispatch_action_intent has a branch for
CommandActions ==
    {"list_stores", "stores", "status", "clear_memory", "help",
     "select_store", "add_store", "delete_store", "rename_store", "export",
     "sync_now", "set_sync", "upload_url", "upload_file"}

\* C2: a message whose resolved action is a command (other than export
\* with a question in its arguments) ends with the command handler and
\* makes no retrieval call, an export without pdf/docx format included.
C2_ActionMakesNoRetrieval ==
    (/\ Resolved
     /\ run.action \in CommandActions
     /\ ~(run.action = "export" /\ "question" \in run.args.keys))
        => run.retrievals = <<>>

\* the first classification carries no action, "none", or too little
\* confidence
WeakClassifier ==
    \/ run.first.action \in {NULL, "", "none"}
    \/ run.first.confidence < ACTION_CONFIDENCE_THRESHOLD

\* C3: when the classifier's action is absent or "none" or its confidence
\* is below the threshold, the resolved action and arguments are those of
\* infer_action_from_text(question), and a document query is started only
\* if the heuristics return no action either.
C3_WeakClassifierYieldsToHeuristics ==
    (Resolved /\ WeakClassifier) =>
        /\ run.action = infer_action_from_text(run.text).action
        /\ run.args = infer_action_from_text(run.text).args
        /\ (run.retrievals # <<>>
               => infer_action_from_text(run.text).action = NULL)

\* C9: after the delete handler deleted store S from the registry, no
\* user's selection references S: every user who had selected S has none.
C9_DeleteCascades ==
    (run.op = "run" /\ run.outcome = "deleted") =>
        /\ get_store_by_id(stores, run.store) = NoStore
        /\ \A u \in run.selectors : get_selected_store(user_state, u) = Absent
        /\ \A u \in Users :
               get_selected_store(user_state, u) # Absent
                   => get_selected_store(user_state, u).selected_store_id
                          # run.store

\* C9 witness: the store both u1 and u2 had selected was deleted.
C9_Witness ==
    /\ run.op = "run" /\ run.outcome = "deleted"
    /\ run.selectors = {"u1", "u2"}
    /\ user_state["u1"] = Absent /\ user_state["u2"] = Absent
    /\ Len(stores) = 1

\* a run that reached the single-store branch
SingleStoreRun == run.op = "run" /\ run.source # "none"

\* the store the classifier's target store name resolves to
TargetStore ==
    IF run.processed.target_store # <<>>
    THEN find_store_by_name(run.processed.target_store, stores)
    ELSE NoStore

\* the store hinted at in the question when the classifier names none
HintedStore ==
    IF run.processed.target_store = <<>>
       /\ extract_target_store_hint(run.question) # <<>>
    THEN find_store_by_name(extract_target_store_hint(run.question), stores)
    ELSE NoStore

\* the store of the user's selection, when it is still registered
SelectedStore ==
    IF user_state[run.user] = Absent THEN NoStore
    ELSE get_store_by_id(stores, user_state[run.user].selected_store_id)

\* C10 as stated: the single-store branch queries the store of the
\* classifier's target store name if it resolves, otherwise the user's
\* selection if one is set, otherwise the router's choice.
C10_TargetSelectionRouter ==
    SingleStoreRun =>
        IF TargetStore # NoStore
        THEN run.source = "target" /\ run.store = TargetStore.id
        ELSE IF user_state[run.user] # Absent
        THEN /\ run.source = "selection"
             /\ run.store = user_state[run.user].selected_store_id
        ELSE run.source \in {"router", "first"}

\* C10 amended: the store queried is the one the classifier's target store
\* name resolves to or, when the classifier names none, the one the hint
\* in the question resolves to; otherwise the user's selection when its
\* store is registered; otherwise the router's first choice when there are
\* several stores and it returns one; otherwise the first store.
C10_NamedSelectionRouter ==
    SingleStoreRun =>
        LET choice == IF run.reply = Idle THEN <<>>
                      ELSE route_with_reasoning(notebooks, run.reply.reply,
                                                run.reply.reply2, 1)
        IN  IF TargetStore # NoStore
            THEN run.source = "target" /\ run.store = TargetStore.id
            ELSE IF HintedStore # NoStore
            THEN run.source = "hint" /\ run.store = HintedStore.id
            ELSE IF SelectedStore # NoStore
            THEN run.source = "selection" /\ run.store = SelectedStore.id
            ELSE IF Len(stores) > 1 /\ choice # <<>>
            THEN run.source = "router" /\ run.store = choice[1].id
            ELSE run.source = "first" /\ run.store = stores[1].id

\* C10 witness: the store hinted at in the question was queried although
\* the user has selected another store.
C10_Witness ==
    /\ SingleStoreRun
    /\ run.source = "hint"
    /\ SelectedStore # NoStore
    /\ SelectedStore.id # run.store
    /\ run.retrievals # <<>>

\* the /compare command of an allowed user with two names and a topic
CompareCommand ==
    /\ run.op = "run" /\ run.handler = "compare_stores"
    /\ check_user_allowed(run.user)
    /\ Len(run.text) >= 4

\* a text message that reached the compare branch with two names
CompareBranch ==
    /\ run.op = "run" /\ run.processed # Idle
    /\ run.processed.query_type = "compare"
    /\ Len(run.processed.target_stores) >= 2

Unresolved(name) == find_store_by_name(name, stores) = NoStore

\* C14: a comparison one of whose two store names does not resolve makes
\* no retrieval call and ends with a failure message: "Store not found:"
\* with the first unresolved name for the /compare command, the fixed
\* failure message for the compare branch of a text message.
C14_UnresolvedComparison ==
    /\ (CompareCommand /\ Unresolved(<<run.text[2]>>)) =>
           /\ run.outcome = "store_not_found"
           /\ run.missing = <<run.text[2]>>
           /\ run.retrievals = <<>>
    /\ (CompareCommand /\ ~Unresolved(<<run.text[2]>>)
           /\ Unresolved(<<run.text[3]>>)) =>
           /\ run.outcome = "store_not_found"
           /\ run.missing = <<run.text[3]>>
           /\ run.retrievals = <<>>
    /\ (CompareBranch /\ (\/ Unresolved(run.processed.target_stores[1])
                          \/ Unresolved(run.processed.target_stores[2]))) =>
           /\ run.outcome = "compare_failed"
           /\ run.retrievals = <<>>

\* C14 witness: /compare a z b, where no store is called z
C14_Witness ==
    /\ CompareCommand
    /\ ~Unresolved(<<run.text[2]>>)
    /\ Unresolved(<<run.text[3]>>)
    /\ run.outcome = "store_not_found"
    /\ run.retrievals = <<>>

\* the resolved action is export and its arguments hold a question
ExportWithQuestion ==
    /\ Resolved /\ run.action = "export"
    /\ "question" \in run.args.keys /\ run.args.question # <<>>

\* the question of the export was classified once more and answered as a
\* document query, no command handler being called
ReclassifiedAndAnswered ==
    /\ run.classified = 2
    /\ run.calls = <<"handle_question">>
    /\ run.question = run.args.question
    /\ run.processed # Idle

\* C16 as claimed: an export with a question is classified once more and
\* answered as a document query, and every such run that produces an
\* answer exports that answer after sending it.
C16_ExportAfterEveryAnswer ==
    ExportWithQuestion =>
        /\ ReclassifiedAndAnswered
        /\ run.outcome = "answer" =>
               /\ Len(run.exports) = 1
               /\ run.exports[1].of = "answer"

\* C16 amended: ... and a run that produces an answer exports that answer
\* after sending it exactly when the format in the arguments is pdf or
\* docx, in that format.
C16_ExportInGivenFormat ==
    ExportWithQuestion =>
        /\ ReclassifiedAndAnswered
        /\ (run.outcome = "answer" /\ run.args.format \in {"pdf", "docx"}) =>
               /\ Len(run.exports) = 1
               /\ run.exports[1].of = "answer"
               /\ run.exports[1].format = run.args.format
        /\ (run.outcome # "answer" \/ run.args.format \notin {"pdf", "docx"}) =>
               run.exports = <<>>

C16_Witness ==
    /\ ExportWithQuestion
    /\ run.outcome = "answer"
    /\ run.args.format = "pdf"
    /\ run.exports # <<>>

\* C17: no exception of a collaborator, the chat transport included,
\* leaves handle_question: a run in which handle_question was called never
\* ends with an exception propagating to the caller.
C17_NoExceptionPropagates ==
    (run.op = "run" /\ InSeq("handle_question", run.calls)) =>
        run.outcome # "raised"

\* C18: a run that returned an answer has added the user's question and
\* the assistant's answer to one scope of that user's conversation memory.
C18_AnswerIsRemembered ==
    (run.op = "run" /\ run.outcome = "answer") =>
        \E i, j \in 1..Len(run.remembered) :
            /\ run.remembered[i].user = run.user
            /\ run.remembered[j].user = run.user
            /\ run.remembered[i].scope = run.remembered[j].scope
            /\ run.remembered[i].role = "user"
            /\ run.remembered[j].role = "assistant"

\* C19: after an allowed user sent /select with the argument clear, reset
\* or none, get_selected_store gives no selection for that user.
C19_SelectClearClears ==
    (/\ run.op = "run" /\ run.handler = "select_store"
     /\ check_user_allowed(run.user)
     /\ Lower(StripCommand(run.text, SelectCmd)) \in ClearWords) =>
        get_selected_store(user_state, run.user) = Absent

\* the commands of the model only the administrator may use; the classifier
\* names the actions as the handlers are named
AdminHandlers == {"add_store", "delete_store", "rename_store"}

\* the run r asks for such a command, typed or in a text the action was
\* resolved from
AdminRequest(r) ==
    /\ r.op = "run"
    /\ \/ r.handler \in AdminHandlers
       \/ r.handler = "handle_question" /\ r.resolved
          /\ r.action \in AdminHandlers

\* the typed commands that leave a required argument out
Incomplete ==
    { AddCmd, DeleteCmd, RenameCmd,
      _build_command_text(AddCmd, <<"|", "z">>),
      _build_command_text(RenameCmd, <<"B">>),
      _build_command_text(RenameCmd, <<"B", " ", "|">>) }

\* the request of run r leaves a required argument out
MissingArgument(r) ==
    IF r.handler \in AdminHandlers THEN r.text \in Incomplete
    ELSE \/ r.action = "add_store" /\ r.args.store_name = <<>>
         \/ r.action = "delete_store" /\ r.args.store_name = <<>>
            /\ extract_target_store_hint(r.text) = <<>>
         \/ r.action = "rename_store"
            /\ (r.args.old_name = <<>> \/ r.args.new_name = <<>>)

\* the last message of run r is a usage or a permission message
Refused(r) ==
    r.outcome \in {"access_denied", "admin_only", "usage", "specify_store",
                   "specify_names"}

C26_NoRetry ==
    SingleStoreRun =>
        /\ Len(run.retrievals) = 1
        /\ run.retrievals[1].store = run.store
        /\ run.retrievals[1].call \in {"ask_question", "ask_with_sources"}
        /\ run.outcome \in {"answer", "no_answer", "error"}

C26_Witness ==
    /\ SingleStoreRun
    /\ run.outcome \in {"no_answer", "error"}
    /\ Len(run.retrievals) = 1

\* C27: an answer is exported after it was sent only in the run whose
\* message asked for the export, and a run that ends without an answer
\* leaves no export asked for.
C27_DeferredExportOneRun ==
    run.op = "run" =>
        /\ (\E i \in 1..Len(run.exports) : run.exports[i].of = "answer")
               => ExportWithQuestion
        /\ (check_user_allowed(run.user) /\ run.outcome # "answer")
               => user_data[run.user].export_after_answer = NULL

----------------------------------------------------------------------------
(* Claims about the folder links (SpecIngest) *)

FolderRun ==
    /\ run.op = "run" /\ InSeq("handle_question", run.calls)
    /\ InSeq(FolderLink, run.text)

\* C22: when the text has a folder link and the user is the administrator,
\* handle_question goes to the ingestion and ends; the classifier is not
\* called, no action is resolved and no retrieval call is made.
C22_FolderLinkBypasses ==
    (FolderRun /\ is_admin(run.user)) =>
        /\ InSeq("handle_folder_link", run.calls)
        /\ run.classified = 0
        /\ ~run.resolved
        /\ run.retrievals = <<>>

C22_Witness ==
    /\ FolderRun /\ is_admin(run.user)
    /\ run.handler = "handle_question"
    /\ run.outcome = "store_created"

\* the ingestion of the run failed after its store was created
IngestionFailed ==
    /\ run.op = "run" /\ InSeq("handle_folder_link", run.calls)
    /\ run.outcome \in {"drive_required", "error", "no_files",
                        "upload_failed"}

\* C30: when the ingestion fails after its temporary store was created,
\* the catalog after the run does not hold the temporary store.
C30_NoTemporaryStoreLeft ==
    IngestionFailed => \A i \in 1..Len(stores) : stores[i].id # run.store

\* C28: a plain text message that reaches the classification goes through
\* the action resolution, whatever way the run of an earlier
\* /export <question> ended.
C28_ForceModeOneRun ==
    (/\ run.op = "run" /\ run.handler = "handle_question"
     /\ run.classified >= 1) => run.resolved

----------------------------------------------------------------------------
(* gemini_client.py: the multistore fan-out.  An answer is a sequence of   *)
(* symbols: letters, and the phrases of no_result_indicators written as    *)
(* one symbol each.  A worker's call of ask_question gives                 *)
(*   [kind |-> "text", text |-> answer]   an answer ("" included)          *)
(*   [kind |-> "none"]    None: ask_question caught its own failure         *)
(*   [kind |-> "raise"]   an exception inside the worker's try block        *)
(* Answers are shorter than the 500 characters format_multistore_response  *)
(* truncates at.                                                            *)

MaxRequested == 3

no_result_indicators == {"#not found", "#no information"}

\* "Unknown", the name of a store the registry does not hold; it sorts by
\* its first letter, which no other name begins with
Unknown == <<"Unknown">>

\* "Ошибка запроса" and "Ошибка: <exception>"
RequestError == <<"#request error">>
WorkerError  == <<"#error">>

\* "Информация не найдена ни в одном из тендеров."
NothingFound == [kind |-> "nothing_found"]

\* not any(ind in answer.lower() for ind in no_result_indicators)
has_result(answer) ==
    \A i \in 1..Len(answer) : LowerChar(answer[i]) \notin no_result_indicators

\* store.get("name", "Unknown") if store else "Unknown"
StoreName(store) == IF store = NoStore THEN Unknown ELSE store.name

StoreResult(store_id, store_name, answer, found) ==
    [store_id |-> store_id, store_name |-> store_name, answer |-> answer,
     has_result |-> found]

\* the exception left the worker: future.result() raises it again
Raised == [kind |-> "raised"]

\* mutant of query_store: the worker without its except clause
query_store_uncaught(sts, store_id, out) ==
    IF out.kind = "raise" THEN Raised
    ELSE IF out.kind = "none" \/ out.text = <<>>
    THEN StoreResult(store_id, StoreName(get_store_by_id(sts, store_id)),
                     RequestError, FALSE)
    ELSE StoreResult(store_id, StoreName(get_store_by_id(sts, store_id)),
                     out.text, has_result(out.text))

\* query_store(store_id): the worker
query_store(sts, store_id, out) ==
    IF out.kind = "raise"
    THEN StoreResult(store_id, StoreName(get_store_by_id(sts, store_id)),
                     WorkerError, FALSE)
    ELSE IF out.kind = "none" \/ out.text = <<>>
    THEN StoreResult(store_id, StoreName(get_store_by_id(sts, store_id)),
                     RequestError, FALSE)
    ELSE StoreResult(store_id, StoreName(get_store_by_id(sts, store_id)),
                     out.text, has_result(out.text))

\* ord(c)
CharCode(c) ==
    CASE c = " " -> 32 [] c = "A" -> 65 [] c = "B" -> 66
      [] c = "Unknown" -> 85 [] c = "a" -> 97 [] c = "b" -> 98
      [] c = "." -> 46 [] c = "0" -> 48 [] c = "1" -> 49 [] c = "2" -> 50
      [] c = "3" -> 51 [] c = "4" -> 52 [] c = "5" -> 53 [] c = "6" -> 54
      [] c = "7" -> 55 [] c = "8" -> 56 [] c = "9" -> 57

\* s < t on str
RECURSIVE StrLess(_, _)
StrLess(s, t) ==
    IF t = <<>> THEN FALSE
    ELSE IF s = <<>> THEN TRUE
    ELSE IF Head(s) = Head(t) THEN StrLess(Tail(s), Tail(t))
    ELSE CharCode(Head(s)) < CharCode(Head(t))

\* key(x) < key(y) for key = (not x["has_result"], x["store_name"])
KeyLess(x, y) ==
    \/ x.has_result /\ ~y.has_result
    \/ x.has_result = y.has_result /\ StrLess(x.store_name, y.store_name)

Front(seq) == SubSeq(seq, 1, Len(seq) - 1)
Last(seq)  == seq[Len(seq)]

\* list.sort is stable: x goes behind every element whose key is not larger
RECURSIVE InsertByKey(_, _)
InsertByKey(sorted, x) ==
    IF sorted # <<>> /\ KeyLess(x, Last(sorted))
    THEN Append(InsertByKey(Front(sorted), x), Last(sorted))
    ELSE Append(sorted, x)

\* results.sort(key=lambda x: (not x["has_result"], x["store_name"]))
RECURSIVE SortByKey(_)
SortByKey(rs) ==
    IF rs = <<>> THEN <<>>
    ELSE InsertByKey(SortByKey(Front(rs)), Last(rs))

\* the numbered entries of the formatted text
Listing(rs) ==
    [kind |-> "found", count |-> Len(rs),
     entries |-> [i \in 1..Len(rs) |->
                     [number |-> i, store_name |-> rs[i].store_name,
                      answer |-> rs[i].answer]]]

WithData(rs) == SelectSeq(rs, LAMBDA r : r.has_result)

FormatData(results_with_data) ==
    IF results_with_data = <<>> THEN NothingFound
    ELSE Listing(results_with_data)

\* mutant of format_multistore_response: every result is listed
format_multistore_response_all(rs) == Listing(rs)

format_multistore_response(rs) == FormatData(WithData(rs))

\* the with block is left: future.result() has raised, or the list is sorted
ask_multistore_parallel(collected) ==
    IF InSeq(Raised, collected) THEN Raised
    ELSE [kind |-> "results", results |-> SortByKey(collected)]

\* bot.py: answer = format_multistore_response(results)
MultistoreAnswer(r) ==
    IF r = Raised THEN Raised
    ELSE [kind |-> "results", results |-> r.results,
          response |-> format_multistore_response(r.results)]

----------------------------------------------------------------------------
(* SpecMultistore: one call of ask_multistore_parallel followed by         *)
(* format_multistore_response, as the multistore branch makes them.  The   *)
(* registry holds two stores whose names may be equal (create_store and    *)
(* update_store_metadata accept any name); the workers complete in any     *)
(* order.                                                                   *)

MultiNames   == {<<"a">>, <<"B">>}
MultiStores  ==
    {<<[id |-> "s1", name |-> n1], [id |-> "s2", name |-> n2]>> :
        n1 \in MultiNames, n2 \in MultiNames}
RequestedIds == {"s1", "s2", "s9"}
StoreIdLists ==
    {ids \in UNION {[1..n -> RequestedIds] : n \in 1..MaxRequested} :
        \A i, j \in 1..Len(ids) : ids[i] = ids[j] => i = j}
WorkerAnswers ==
    {[kind |-> "text", text |-> <<"a">>],
     [kind |-> "text", text |-> <<"b">>],
     [kind |-> "text", text |-> <<"a", "#not found">>],
     [kind |-> "text", text |-> <<>>],
     [kind |-> "none"], [kind |-> "raise"]}

InitMultistore ==
    /\ stores \in MultiStores
    /\ futures = <<>>
    /\ results = <<>>
    /\ returned = Idle
    /\ notebooks = <<>> /\ routed = Idle
    /\ user_state = Idle /\ user_data = Idle /\ run = Idle
    /\ ClassifierIdle /\ MemoryIdle /\ StateIdle /\ CleanupIdle

\* executor.submit(query_store, store_id) for every store_id
Submit ==
    \E store_ids \in StoreIdLists :
        /\ futures = <<>>
        /\ futures' = [i \in 1..Len(store_ids) |->
                          [store_id |-> store_ids[i], state |-> "running"]]
        /\ UNCHANGED <<results, returned, stores, notebooks, routed,
                       user_state, user_data, run, classifierVars, memoryVars,
                       stateVars, cleanupVars>>

\* one worker ends; as_completed hands its future to results.append
QueryStore ==
    \E i \in 1..Len(futures), out \in WorkerAnswers :
        /\ futures[i].state = "running"
        /\ futures' = [futures EXCEPT ![i] = [store_id |-> @.store_id,
                                              state |-> "done", out |-> out]]
        /\ results' = Append(results, query_store(stores, futures[i].store_id, out))
        /\ UNCHANGED <<returned, stores, notebooks, routed,
                       user_state, user_data, run, classifierVars, memoryVars,
                       stateVars, cleanupVars>>

\* every worker has ended: the list is sorted, returned and formatted
ReturnResults ==
    /\ returned = Idle
    /\ futures # <<>>
    /\ \A i \in 1..Len(futures) : futures[i].state = "done"
    /\ returned' = MultistoreAnswer(ask_multistore_parallel(results))
    /\ UNCHANGED <<futures, results, stores, notebooks, routed,
                   user_state, user_data, run, classifierVars, memoryVars,
                       stateVars, cleanupVars>>

NextMultistore == Submit \/ QueryStore \/ ReturnResults

SpecMultistore == InitMultistore /\ [][NextMultistore]_vars

----------------------------------------------------------------------------
(* Claims about the multistore fan-out (SpecMultistore) *)

Answered == returned # Idle /\ returned # Raised

\* the worker's answer is empty, a failure, or holds a not-found phrase
Negative(out) ==
    \/ out.kind \in {"none", "raise"}
    \/ out.kind = "text" /\ out.text = <<>>
    \/ out.kind = "text" /\ \E i \in 1..Len(out.text) :
                                out.text[i] \in no_result_indicators

Positives == {k \in 1..Len(returned.results) : returned.results[k].has_result}

\* C11: when every store's answer is a not-found phrase, empty or a
\* failure, the formatted response is the fixed nothing-found message;
\* otherwise it lists the stores with has_result true and only those.
C11_MultistoreSuppression ==
    Answered =>
        IF \A i \in 1..Len(futures) : Negative(futures[i].out)
        THEN returned.response = NothingFound
        ELSE /\ returned.response.kind = "found"
             /\ returned.response.count = Cardinality(Positives)
             /\ Len(returned.response.entries) = Cardinality(Positives)
             /\ \A e \in 1..Len(returned.response.entries) :
                    \E k \in Positives :
                        /\ returned.response.entries[e].store_name =
                               returned.results[k].store_name
                        /\ returned.response.entries[e].answer =
                               returned.results[k].answer
             /\ \A k \in Positives :
                    \E e \in 1..Len(returned.response.entries) :
                        /\ returned.response.entries[e].store_name =
                               returned.results[k].store_name
                        /\ returned.response.entries[e].answer =
                               returned.results[k].answer

C11_Witness ==
    /\ Answered
    /\ Len(futures) >= 2
    /\ \A i \in 1..Len(futures) : Negative(futures[i].out)
    /\ \E i \in 1..Len(futures) :
           futures[i].out.kind = "text" /\ futures[i].out.text # <<>>
    /\ returned.response = NothingFound

\* C12: whatever mix of answers, null answers and exceptions the workers
\* meet, the call returns a list holding exactly one result per requested
\* store id, and the result of a failed store has has_result false.
C12_PartialFailureIsolated ==
    returned # Idle =>
        /\ returned # Raised
        /\ Len(returned.results) = Len(futures)
        /\ \A i \in 1..Len(futures) :
               /\ Cardinality({k \in 1..Len(returned.results) :
                      returned.results[k].store_id = futures[i].store_id}) = 1
               /\ futures[i].out.kind \in {"none", "raise"} =>
                      \A k \in 1..Len(returned.results) :
                          returned.results[k].store_id = futures[i].store_id
                              => ~returned.results[k].has_result

C12_Witness ==
    /\ Answered
    /\ \E i \in 1..Len(futures) : futures[i].out.kind = "raise"
    /\ \E i \in 1..Len(futures) : futures[i].out.kind = "none"
    /\ Positives # {}

\* the list the call returns when the workers end in submission order
InSubmissionOrder ==
    SortByKey([i \in 1..Len(futures) |->
                  query_store(stores, futures[i].store_id, futures[i].out)])

\* C13: the returned list does not depend on the order in which the
\* workers complete: it is the list returned when they complete in
\* submission order; stores with a positive answer precede the others and
\* within each group the names do not decrease.
C13_OrderIndependent ==
    Answered =>
        /\ returned.results = InSubmissionOrder
        /\ \A j, k \in 1..Len(returned.results) :
               j < k =>
                   /\ returned.results[k].has_result =>
                          returned.results[j].has_result
                   /\ returned.results[j].has_result =
                          returned.results[k].has_result =>
                          ~StrLess(returned.results[k].store_name,
                                   returned.results[j].store_name)

----------------------------------------------------------------------------
(* memory_client.py: the conversation memory.  memory maps a user and a    *)
(* scope (a store id, "global" or "web") to the list of messages kept; a   *)
(* pair never written holds no list, which get_history reads as [].  A     *)
(* message is its role and content; its timestamp is left out.             *)

MaxMessages == 2
MaxAppends  == 4

\* messages[-n:]
LastN(messages, n) ==
    IF n = 0 THEN messages
    ELSE SubSeq(messages, Max(1, Len(messages) - n + 1), Len(messages))

\* if len(messages) > self.max_messages: messages = messages[-max_messages:]
KeepLast(messages, n) ==
    IF Len(messages) > n THEN LastN(messages, n) ELSE messages

add_message(mem, n, user_id, store_id, role, content) ==
    [mem EXCEPT ![<<user_id, store_id>>] =
        KeepLast(Append(@, [role |-> role, content |-> content]), n)]

get_history(mem, user_id, store_id) == mem[<<user_id, store_id>>]

----------------------------------------------------------------------------
(* SpecMemory: a client constructed with max_messages (the integer read    *)
(* from MEMORY_MAX_MESSAGES) on an empty memory file, then any sequence of *)
(* add_message calls.  appended keeps every message given to add_message.  *)

MemoryUsers  == {"u1", "u2"}
Scopes       == {"global", "s1"}
Roles        == {"user", "assistant"}
Contents     == {<<"a">>, <<"b">>}
NoMessages   == [pair \in MemoryUsers \X Scopes |-> <<>>]

RECURSIVE TotalLen(_, _)
TotalLen(f, pairs) ==
    IF pairs = {} THEN 0
    ELSE Len(f[CHOOSE pair \in pairs : TRUE]) +
         TotalLen(f, pairs \ {CHOOSE pair \in pairs : TRUE})

InitMemory ==
    /\ max_messages \in 0..MaxMessages
    /\ memory = NoMessages
    /\ appended = NoMessages
    /\ RouterIdle /\ ClassifierIdle /\ BotIdle /\ MultistoreIdle
    /\ StateIdle /\ CleanupIdle

AddMessage ==
    \E user_id \in MemoryUsers, store_id \in Scopes, role \in Roles,
       content \in Contents :
        /\ TotalLen(appended, DOMAIN appended) < MaxAppends
        /\ memory' = add_message(memory, max_messages, user_id, store_id,
                                 role, content)
        /\ appended' = [appended EXCEPT ![<<user_id, store_id>>] =
                           Append(@, [role |-> role, content |-> content])]
        /\ UNCHANGED <<max_messages, routerVars, classifierVars, botVars,
                       multistoreVars, stateVars, cleanupVars>>

NextMemory == AddMessage

SpecMemory == InitMemory /\ [][NextMemory]_vars

----------------------------------------------------------------------------
(* Claims about the conversation memory (SpecMemory) *)

\* the n most recent of the messages, in append order
MostRecent(messages, n) ==
    SubSeq(messages, Len(messages) - Min(Len(messages), n) + 1, Len(messages))

\* C15: after any sequence of add_message calls the history of every
\* (user, scope) pair holds at most max_messages messages and is the most
\* recent min(n, max_messages) of the n messages appended to that pair, in
\* append order.
C15_HistoryCapped ==
    \A pair \in DOMAIN memory :
        /\ Len(get_history(memory, pair[1], pair[2])) <= max_messages
        /\ get_history(memory, pair[1], pair[2]) =
               MostRecent(appended[pair], max_messages)

----------------------------------------------------------------------------
(* SpecUserState: the UserStateClient alone.  Any user selects any store,  *)
(* clears its selection, or a store's selections are cleared for all; the  *)
(* calls are logged in calls.  Store ids are those of registered stores,   *)
(* never the empty string.                                                  *)

MaxCalls == 3

StateStoreIds == {"s1", "s2"}
StateStoreNames == {<<"a">>, <<"B">>}

InitUserState ==
    /\ user_state = [u \in Users |-> Absent]
    /\ calls = <<>>
    /\ stores = <<>> /\ user_data = Idle /\ run = Idle
    /\ RouterIdle /\ ClassifierIdle /\ MultistoreIdle /\ MemoryIdle
    /\ CleanupIdle

Logged(call) ==
    /\ Len(calls) < MaxCalls
    /\ calls' = Append(calls, call)
    /\ UNCHANGED <<stores, user_data, run, routerVars, classifierVars,
                   multistoreVars, memoryVars, cleanupVars>>

SetSelectedStore ==
    \E user_id \in Users, store_id \in StateStoreIds,
       store_name \in StateStoreNames :
        /\ user_state' = set_selected_store(user_state, user_id, store_id,
                                            store_name)
        /\ Logged([op |-> "set", user |-> user_id, store_id |-> store_id,
                   store_name |-> store_name])

ClearSelectedStore ==
    \E user_id \in Users :
        /\ user_state' = clear_selected_store(user_state, user_id)
        /\ Logged([op |-> "clear", user |-> user_id])

ClearStoreForAll ==
    \E store_id \in StateStoreIds :
        /\ user_state' = clear_store_for_all(user_state, store_id)
        /\ Logged([op |-> "clear_for_store", store_id |-> store_id])

NextUserState == SetSelectedStore \/ ClearSelectedStore \/ ClearStoreForAll

SpecUserState == InitUserState /\ [][NextUserState]_vars

----------------------------------------------------------------------------
(* Claims about the selections (SpecUserState) *)

\* the position of the last set_selected_store call for user_id, 0 for none
LastSet(user_id) ==
    IF \E i \in 1..Len(calls) :
           calls[i].op = "set" /\ calls[i].user = user_id
    THEN CHOOSE i \in 1..Len(calls) :
             /\ calls[i].op = "set" /\ calls[i].user = user_id
             /\ \A j \in (i + 1)..Len(calls) :
                    ~(calls[j].op = "set" /\ calls[j].user = user_id)
    ELSE 0

\* a call after position i that clears the selection made there
ClearedAfter(i) ==
    \E j \in (i + 1)..Len(calls) :
        \/ calls[j].op = "clear" /\ calls[j].user = calls[i].user
        \/ calls[j].op = "clear_for_store"
           /\ calls[j].store_id = calls[i].store_id

\* what the calls made so far leave selected for user_id
Selected(user_id) ==
    IF LastSet(user_id) = 0 THEN Absent
    ELSE IF ClearedAfter(LastSet(user_id)) THEN Absent
    ELSE [selected_store_id |-> calls[LastSet(user_id)].store_id,
          selected_store_name |-> calls[LastSet(user_id)].store_name]

\* C21: after any sequence of set_selected_store, clear_selected_store and
\* clear_store_for_all calls, get_selected_store(U) gives the id and name of
\* the most recent set for U, or nothing when a clear_selected_store(U) or
\* a clear_store_for_all of that store id came after it; calls for other
\* users or other store ids do not change U's entry.
C21_SelectionFollowsCalls ==
    \A user_id \in Users :
        get_selected_store(user_state, user_id) = Selected(user_id)

\* U's selection stands after a clear for another user and a
\* clear_store_for_all of another store
C21_Witness ==
    \E user_id \in Users :
        /\ Len(calls) = 3
        /\ calls[1].op = "set" /\ calls[1].user = user_id
        /\ calls[2].op = "clear" /\ calls[2].user # user_id
        /\ calls[3].op = "clear_for_store"
        /\ calls[3].store_id # calls[1].store_id
        /\ get_selected_store(user_state, user_id) # Absent

----------------------------------------------------------------------------
(* SpecHeuristic: the heuristics applied to one text of up to MaxTextLen *)
(* words                                                                 *)

MaxTextLen == 3

HeuristicWords ==
    {"a", "?", "#list", "#store", "#status", "#clear", "#memory", "#export",
     "#pdf", "#docx", "#select", "#rename", "#in", "#delete"}

TextsUpTo(n) == UNION {[1..k -> HeuristicWords] : k \in 0..n}

InitHeuristic ==
    /\ question \in TextsUpTo(MaxTextLen)
    /\ response = Idle
    /\ processed = Idle
    /\ picked = Idle
    /\ RouterIdle /\ BotIdle /\ SideIdle

\* action, action_args = infer_action_from_text(question)
InferAction ==
    /\ picked = Idle
    /\ picked' = [op |-> "inferred"] @@ infer_action_from_text(question)
    /\ UNCHANGED <<question, response, processed, routerVars, botVars, sideVars>>

NextHeuristic == InferAction

SpecHeuristic == InitHeuristic /\ [][NextHeuristic]_vars

----------------------------------------------------------------------------
(* Claims about the heuristics (SpecHeuristic) *)

\* the rules in the order they are evaluated
RuleOrder ==
    <<"list_stores", "status", "clear_memory", "export", "select_store",
      "rename_store", "delete_store">>

\* the format the export rule reports
ExportFormat(text) ==
    IF Has(text, "#pdf") THEN Dict({"format"}, "pdf", <<>>, <<>>, <<>>, <<>>)
    ELSE IF Has(text, "#docx")
    THEN Dict({"format"}, "docx", <<>>, <<>>, <<>>, <<>>)
    ELSE EmptyDict

\* what one rule gives for the text on its own: its action with its
\* arguments, or NoAction when the rule does not match or extracts an
\* empty name
RuleGives(rule, text) ==
    CASE rule = "list_stores" ->
           IF HasBefore(text, "#list", "#store")
           THEN [action |-> rule, args |-> EmptyDict] ELSE NoAction
      [] rule = "status" ->
           IF Has(text, "#status")
           THEN [action |-> rule, args |-> EmptyDict] ELSE NoAction
      [] rule = "clear_memory" ->
           IF HasBefore(text, "#clear", "#memory")
           THEN [action |-> rule, args |-> EmptyDict] ELSE NoAction
      [] rule = "export" ->
           IF Has(text, "#export")
           THEN [action |-> rule, args |-> ExportFormat(text)] ELSE NoAction
      [] rule = "select_store" -> NameRule(text, "#select", rule)
      [] rule = "rename_store" -> RenameRule(text)
      [] OTHER -> NameRule(text, "#delete", rule)

\* the positions in RuleOrder of the rules that give an action
Giving(text) ==
    { k \in 1..Len(RuleOrder) : RuleGives(RuleOrder[k], text) # NoAction }

\* C24: infer_action_from_text evaluates its rules in the order list_stores,
\* status, clear_memory, export, select_store, rename_store, delete_store
\* and returns the result of the first rule that matches, a select, rename
\* or delete rule with an empty extracted name counting as no match; with
\* no matching rule, or an empty text, it returns no action and no
\* arguments.
C24_FirstRuleWins ==
    picked.op = "inferred" =>
        IF Giving(question) = {}
        THEN picked.action = NULL /\ picked.args = EmptyDict
        ELSE /\ picked.action = RuleOrder[First(Giving(question))]
             /\ picked.args =
                    RuleGives(RuleOrder[First(Giving(question))], question).args

\* the select rule matched with a name that is empty once cleaned, and the
\* delete rule after it gave the result
C24_Witness ==
    /\ picked.op = "inferred"
    /\ FirstNameMatch(question, "#select") # 0
    /\ NameRule(question, "#select", "select_store") = NoAction
    /\ Cardinality(Giving(question)) = 1
    /\ picked.action = "delete_store"
    /\ picked.args.store_name # <<>>

----------------------------------------------------------------------------
(* memory_client.py with its timestamps.  The clock counts half days: an  *)
(* even reading is a day with no fraction of a second, an odd one the     *)
(* same day a microsecond later.  isoformat() leaves the fraction out     *)
(* when it is zero, and the client compares the strings.                  *)

MaxNow == 5

MEMORY_CLEANUP_DAYS == 1
MEMORY_MAX_MESSAGES == 2

Digit(d) ==
    CASE d = 0 -> "0" [] d = 1 -> "1" [] d = 2 -> "2" [] d = 3 -> "3"
      [] d = 4 -> "4" [] d = 5 -> "5" [] d = 6 -> "6" [] d = 7 -> "7"
      [] d = 8 -> "8" [] OTHER -> "9"

\* datetime.isoformat()
isoformat(t) ==
    IF t % 2 = 0 THEN <<Digit(t \div 2)>> ELSE <<Digit(t \div 2), ".", "1">>

\* a (user, store) pair without an entry, and a user without an entry
NoContext == [present |-> FALSE, messages |-> <<>>, last_interaction |-> <<>>]
NoUser    == [present |-> FALSE, scopes |-> [s \in Scopes |-> NoContext]]

\* the entry of one (user, store) pair after a message stamped `stamp`
stamped(context, n, role, stamp) ==
    [present |-> TRUE,
     messages |-> KeepLast(Append(context.messages,
                                  [role |-> role, timestamp |-> stamp]), n),
     last_interaction |-> stamp]

\* add_message with the clock at t
add_message_at(mem, n, user_id, store_id, role, t) ==
    [mem EXCEPT ![user_id] =
        [present |-> TRUE,
         scopes |-> [@.scopes EXCEPT ![store_id] =
                        stamped(@, n, role, isoformat(t))]]]

\* clear_history(user_id, store_id), store_id NULL for None
clear_history(mem, user_id, store_id) ==
    IF ~mem[user_id].present THEN mem
    ELSE IF store_id # NULL
    THEN [mem EXCEPT ![user_id].scopes[store_id] = NoContext]
    ELSE [mem EXCEPT ![user_id].scopes = [s \in Scopes |-> NoContext]]

\* the sweep that removes an entry whose stamp equals the cutoff as well
stores_to_remove_inclusive(user_entry, cutoff_str) ==
    { s \in Scopes :
        /\ user_entry.scopes[s].present
        /\ user_entry.scopes[s].last_interaction # <<>>
        /\ ~StrLess(cutoff_str, user_entry.scopes[s].last_interaction) }

\* `if last_interaction and last_interaction < cutoff_str`
stores_to_remove(user_entry, cutoff_str) ==
    { s \in Scopes :
        /\ user_entry.scopes[s].present
        /\ user_entry.scopes[s].last_interaction # <<>>
        /\ StrLess(user_entry.scopes[s].last_interaction, cutoff_str) }

\* `for store_id in stores_to_remove: del user_entry[store_id]`
without_stores(user_entry, removed) ==
    [user_entry EXCEPT !.scopes =
        [s \in Scopes |-> IF s \in removed THEN NoContext ELSE @[s]]]

\* `if not user_entry: users_to_remove.append(user_key)`
without_empty(user_entry) ==
    IF \E s \in Scopes : user_entry.scopes[s].present
    THEN user_entry ELSE NoUser

\* the two loops of cleanup_old_entries for one cutoff string
cleanup_before(mem, cutoff_str) ==
    [u \in DOMAIN mem |->
        IF ~mem[u].present THEN mem[u]
        ELSE without_empty(
                 without_stores(mem[u], stores_to_remove(mem[u], cutoff_str)))]

\* cutoff = datetime.now() - timedelta(days=days)
cutoff_at(t, days) == t - 2 * days

\* cleanup_old_entries(days) with the clock at t
cleanup_old_entries(mem, t, days) ==
    cleanup_before(mem, isoformat(cutoff_at(t, days)))

RECURSIVE SumOver(_, _)
SumOver(f, keys) ==
    IF keys = {} THEN 0
    ELSE f[CHOOSE k \in keys : TRUE] +
         SumOver(f, keys \ {CHOOSE k \in keys : TRUE})

\* cleaned_stores and cleaned_users as the job logs them
cleaned_stores(mem, cutoff_str) ==
    SumOver([u \in DOMAIN mem |->
                IF mem[u].present
                THEN Cardinality(stores_to_remove(mem[u], cutoff_str))
                ELSE 0], DOMAIN mem)

cleaned_users(mem, cutoff_str) ==
    Cardinality({ u \in DOMAIN mem :
                    mem[u].present /\ ~cleanup_before(mem, cutoff_str)[u].present })

----------------------------------------------------------------------------
(* SpecCleanup: messages, /clear and the cleanup job on one memory client, *)
(* the clock running from the first day a cutoff can be taken on to MaxNow *)

SweepContexts == { <<"u1", "global">>, <<"u1", "s1">>, <<"u2", "global">> }

InitCleanup ==
    /\ now = cutoff_at(0, 0 - MEMORY_CLEANUP_DAYS)
    /\ contexts = [u \in MemoryUsers |-> NoUser]
    /\ swept = Idle
    /\ RouterIdle /\ ClassifierIdle /\ BotIdle /\ MultistoreIdle
    /\ MemoryIdle /\ StateIdle

otherVars == <<routerVars, classifierVars, botVars, multistoreVars,
               memoryVars, stateVars>>

\* time passes
Tick ==
    /\ now < MaxNow
    /\ now' = now + 1
    /\ swept' = Idle
    /\ UNCHANGED <<contexts, otherVars>>

\* memory_client.add_message(user_id, store_id, "user", question)
AddMessageAt ==
    \E pair \in SweepContexts :
        /\ contexts' = add_message_at(contexts, MEMORY_MAX_MESSAGES, pair[1],
                                      pair[2], "user", now)
        /\ swept' = Idle
        /\ UNCHANGED <<now, otherVars>>

\* memory_client.clear_history(user_id) and clear_history(user_id, store_id)
ClearHistory ==
    \E user_id \in MemoryUsers, store_id \in Scopes \cup {NULL} :
        /\ contexts' = clear_history(contexts, user_id, store_id)
        /\ swept' = Idle
        /\ UNCHANGED <<now, otherVars>>

\* memory_cleanup_job: cleanup_old_entries(days=MEMORY_CLEANUP_DAYS)
MemoryCleanupJob ==
    /\ contexts' = cleanup_old_entries(contexts, now, MEMORY_CLEANUP_DAYS)
    /\ swept' = [op |-> "cleanup",
                 cleaned_stores |->
                     cleaned_stores(contexts,
                         isoformat(cutoff_at(now, MEMORY_CLEANUP_DAYS))),
                 cleaned_users |->
                     cleaned_users(contexts,
                         isoformat(cutoff_at(now, MEMORY_CLEANUP_DAYS)))]
    /\ UNCHANGED <<now, otherVars>>

NextCleanup == Tick \/ AddMessageAt \/ ClearHistory \/ MemoryCleanupJob

SpecCleanup == InitCleanup /\ [][NextCleanup]_vars

----------------------------------------------------------------------------
(* Claims about the cleanup job (SpecCleanup) *)

\* the clock reading a stamp was written at
TimeOf(stamp) == CHOOSE t \in 0..MaxNow : isoformat(t) = stamp

\* the last activity of the context is older than the cutoff
Older(context, cutoff) ==
    context.present /\ TimeOf(context.last_interaction) < cutoff

\* after is before without the contexts older than the cutoff and without
\* the users that have no context left
SweptAt(before, after, cutoff) ==
    /\ \A u \in MemoryUsers, s \in Scopes :
          after[u].scopes[s] = IF Older(before[u].scopes[s], cutoff)
                               THEN NoContext ELSE before[u].scopes[s]
    /\ \A u \in MemoryUsers :
          after[u].present = (before[u].present /\
                              \E s \in Scopes : after[u].scopes[s].present)

\* a second sweep at the same time changes nothing, and a sweep run at an
\* earlier time before this one leads to the same memory
SweepRepeats(before, after, t) ==
    /\ cleanup_old_entries(after, t, MEMORY_CLEANUP_DAYS) = after
    /\ \A t1 \in cutoff_at(0, 0 - MEMORY_CLEANUP_DAYS)..t :
          cleanup_old_entries(
              cleanup_old_entries(before, t1, MEMORY_CLEANUP_DAYS),
              t, MEMORY_CLEANUP_DAYS) = after

\* C25: cleanup_old_entries removes exactly the (user, scope) contexts whose
\* last activity is older than the retention cutoff and the user entries
\* left with no scope, and leaves every other context as it was; a second
\* sweep with the same cutoff, or a sweep that was skipped before this one,
\* makes no difference to the memory.
C25_SweepExactAndIdempotent ==
    [][swept'.op = "cleanup" =>
          /\ SweptAt(contexts, contexts', cutoff_at(now, MEMORY_CLEANUP_DAYS))
          /\ SweepRepeats(contexts, contexts', now)]_vars

\* the job removed a context and a user, and a context with its two
\* messages stayed
C25_Witness ==
    /\ swept.op = "cleanup"
    /\ swept.cleaned_stores >= 1
    /\ swept.cleaned_users >= 1
    /\ \E u \in MemoryUsers, s \in Scopes :
          /\ contexts[u].scopes[s].present
          /\ Len(contexts[u].scopes[s].messages) = MEMORY_MAX_MESSAGES

====
